---- MODULE Spec2Model ----
(***************************************************************************)
(* A model of the nfl-playoff-draft repository:                            *)
(*   - the snake-draft turn resolver of the draft page                     *)
(*     (src/app/league/[id]/draft/page.tsx, pickOwnerForSnake),            *)
(*   - the fantasy-point formula (src/scripts/scoreEvent.mjs,              *)
(*     computePoints),                                                     *)
(*   - the scoring run of src/scripts/scoreEvent.mjs (main and             *)
(*     updateLeagueTeamPoints) against the tables of the backing store.    *)
(*                                                                         *)
(* Conventions.  A JavaScript value that may be null/undefined is a set:   *)
(* {} is null, {v} is the value v.  Text identifiers are strings and the   *)
(* string Null stands for a null identifier.  Fantasy points are integers  *)
(* counting hundredths of a point; the intermediate floating-point sum of  *)
(* computePoints is an integer counting millionths of a point.             *)
(***************************************************************************)
EXTENDS Integers, Sequences, FiniteSets, Bags, TLC

VARIABLES
  \* ---- draft page (turn resolver) ----
  league,          \* the league row held by the page: [num_teams |-> {} or {n}]
  order,           \* the draft order held by the page: sequence of [slot, user_id]
  turns,           \* turns resolved so far, one per pick number 1..Len(turns)
  \* ---- point formula ----
  stat,            \* a stat line s handed to computePoints
  fantasy_points,  \* {} before the call, {computePoints(s)} after it
  \* ---- scoring run (scoreEvent.mjs) ----
  runners,         \* the operating-system processes the operator may start
  runs,            \* number of scoring runs started so far
  pc,              \* per process: the await the process is parked at
  eventId,         \* per process: process.argv[2]
  local,           \* per process: the local variables of main/updateLeagueTeamPoints
  log,             \* per process: the steps the current run has performed
  atStart,         \* per process: the tables as they were when the run started
  prevRollup,      \* per (event, league): inputs and rows of the last successful rollup
  nfl_events,              \* table nfl_events
  player_event_stats,      \* table player_event_stats
  player_event_points,     \* table player_event_points
  league_team_event_points,\* table league_team_event_points (a bag of rows)
  leagues,                 \* table leagues (rows in the order the query returns them)
  draft_picks,             \* table draft_picks
  players,                 \* table players
  \* ---- draft page (DraftPage), one league, several open pages ----
  page,            \* per open page: authUserId, league, members, order, picks, error, busy, alert
  call,            \* per open page: the handler parked at an await, with what it closed over
  feed,            \* per open page: change notifications sent and not yet delivered
  response,        \* per open page: {} or {the answer to its picks query, on its way}
  league_row,      \* the league's row of table leagues
  draft_order,     \* the league's rows of table draft_order
  league_members,  \* the league's rows of table league_members, in join order
  nextId,          \* ids handed out to draft_picks rows so far
  clicks,          \* button clicks on the open pages so far
  \* ---- stat extraction (toInt, extractStatsFromSummary) ----
  summary,         \* <<>> or <<the summary handed to extractStatsFromSummary>>
  extracted,       \* {} before the call, {the stat lines returned} after it
  toIntArg,        \* <<>> or <<the value handed to toInt>>: {} (null) or {text}
  toIntRet,        \* {} before the call, {the number returned} after it
  \* ---- league page (LeaguePage): standings, expanded teams, realtime ----
  leaguePage       \* the state, the effect's closure and the timers of one open page

snakeVars == <<league, order, turns>>
pointVars == <<stat, fantasy_points>>
tables == <<nfl_events, player_event_stats, player_event_points,
            league_team_event_points>>
catalog == <<leagues, draft_picks, players>>
runVars == <<runners, runs, pc, eventId, local, log, atStart, prevRollup>>
draftVars == <<page, call, feed, response, league_row, draft_order, league_members, nextId,
               clicks>>
extractVars == <<summary, extracted, toIntArg, toIntRet>>
vars == <<snakeVars, pointVars, runVars, tables, catalog, draftVars, extractVars, leaguePage>>

Null == "null"

\* ---- bounds ----
MaxTeams == 4
MaxPick == 12
MaxRuns == 2
MaxPickIds == 2
MaxClicks == 3
MaxLen == 3
MaxCellLen == 2
MaxEvents == 3

\* ---- JavaScript helpers ----
IsNull(x) == x = {}
Val(x) == CHOOSE v \in x : TRUE

(***************************************************************************)
(* Turn resolver                                                           *)
(***************************************************************************)
Owners == {"A", "B", "C", "D"}

\* order.find((o) => o.slot === slot): the first entry with that slot, or null
RECURSIVE FindSlot(_, _, _)
FindSlot(ord, slot, i) ==
  IF i > Len(ord) THEN {}
  ELSE IF ord[i].slot = slot THEN {ord[i]}
  ELSE FindSlot(ord, slot, i + 1)

\* a plausible slip: the reversed rounds are computed as n - idx
pickSlotForSnakeOffByOne(n, pickNumber) ==
  LET round == ((pickNumber - 1) \div n) + 1
      idx == ((pickNumber - 1) % n) + 1
  IN IF round % 2 = 1 THEN idx ELSE n - idx

\* a plausible slip: every round runs forward (no snake reversal)
pickSlotForSnakeNoReversal(n, pickNumber) ==
  ((pickNumber - 1) % n) + 1

\* a plausible slip: the round is computed from pickNumber instead of pickNumber - 1
pickSlotForSnakeShiftedRound(n, pickNumber) ==
  LET round == (pickNumber \div n) + 1
      idx == ((pickNumber - 1) % n) + 1
  IN IF round % 2 = 1 THEN idx ELSE n - idx + 1

\* lines 204-206 of the draft page
pickSlotForSnake(n, pickNumber) ==
  LET round == ((pickNumber - 1) \div n) + 1
      idx == ((pickNumber - 1) % n) + 1
  IN IF round % 2 = 1 THEN idx ELSE n - idx + 1

\* a plausible slip: a slot without an entry falls back to the first entry of the order
pickOwnerForSnakeInDefaultFirst(lg, ord, pickNumber) ==
  IF IsNull(lg) \/ IsNull(Val(lg).num_teams) \/ Val(Val(lg).num_teams) = 0 THEN Null
  ELSE LET n == Val(Val(lg).num_teams) IN
    IF n < 1 THEN Null
    ELSE LET entry == FindSlot(ord, pickSlotForSnake(n, pickNumber), 1) IN
      IF IsNull(entry) THEN (IF ord = <<>> THEN Null ELSE ord[1].user_id)
      ELSE Val(entry).user_id

\* pickOwnerForSnake over the page state it closes over: lg is the page's league
\* (empty while it is not loaded), ord its draft order
pickOwnerForSnakeIn(lg, ord, pickNumber) ==
  IF IsNull(lg) \/ IsNull(Val(lg).num_teams) \/ Val(Val(lg).num_teams) = 0 THEN Null
  ELSE LET n == Val(Val(lg).num_teams) IN
    IF n < 1 THEN Null
    ELSE LET entry == FindSlot(ord, pickSlotForSnake(n, pickNumber), 1) IN
      IF IsNull(entry) THEN Null ELSE Val(entry).user_id

\* pickOwnerForSnake: the owner on the clock for pickNumber, or Null
pickOwnerForSnake(pickNumber) == pickOwnerForSnakeIn({league}, order, pickNumber)

\* the slot pickOwnerForSnake looks up (0 when it returns before computing one)
resolvedSlot(pickNumber) ==
  IF IsNull(league.num_teams) \/ Val(league.num_teams) < 1 THEN 0
  ELSE pickSlotForSnake(Val(league.num_teams), pickNumber)

\* currentTurnUserId for nextPickNumber = picks.length + 1
ResolveTurn ==
  /\ Len(turns) < MaxPick
  /\ LET nextPickNumber == Len(turns) + 1 IN
       turns' = Append(turns, [slot |-> resolvedSlot(nextPickNumber),
                               owner |-> pickOwnerForSnake(nextPickNumber)])
  /\ UNCHANGED <<league, order, pointVars, runVars, tables, catalog, draftVars, extractVars, leaguePage>>

\* draft orders as the page loads them: slots 1..k ascending, one owner per slot
FullOrders(k) ==
  { [i \in 1..k |-> [slot |-> i, user_id |-> f[i]]] : f \in [1..k -> Owners] }

SnakeInit ==
  /\ league \in { [num_teams |-> x] : x \in {{}} \cup { {n} : n \in -1..MaxTeams } }
  /\ order \in UNION { FullOrders(k) : k \in 0..MaxTeams }
  /\ turns = <<>>

(***************************************************************************)
(* Point formula                                                           *)
(***************************************************************************)
\* the rounding error the double-precision sum may carry, in millionths
FloatErr == {-1, 0, 1}

\* Number(x.toFixed(2)) of a value given in millionths: the nearest hundredth,
\* a tie going away from zero
ToFixed2(v) ==
  IF v >= 0 THEN (v + 5000) \div 10000 ELSE -((5000 - v) \div 10000)

\* a plausible slip: the sum is truncated to two decimals instead of rounded
computePointsTruncating(s, err) ==
  LET pass == 40000 * s.passing_yards + 4000000 * s.passing_tds - 2000000 * s.interceptions
      rush == 100000 * s.rushing_yards + 6000000 * s.rushing_tds
      recv == 100000 * s.receiving_yards + 6000000 * s.receiving_tds + 500000 * s.receptions
      fum == -2000000 * s.fumbles_lost
      returns == 6000000 * (s.kick_return_tds + s.punt_return_tds)
      sum == pass + rush + recv + fum + returns + err
  IN IF sum >= 0 THEN sum \div 10000 ELSE -((-sum) \div 10000)

\* computePoints(s): err is the rounding error of the floating-point sum
computePoints(s, err) ==
  LET pass == 40000 * s.passing_yards + 4000000 * s.passing_tds - 2000000 * s.interceptions
      rush == 100000 * s.rushing_yards + 6000000 * s.rushing_tds
      recv == 100000 * s.receiving_yards + 6000000 * s.receiving_tds + 500000 * s.receptions
      fum == -2000000 * s.fumbles_lost
      returns == 6000000 * (s.kick_return_tds + s.punt_return_tds)
  IN ToFixed2(pass + rush + recv + fum + returns + err)

YardValues == {-3, 0, 7, 300}

StatLines ==
  [ passing_yards : YardValues, passing_tds : {0, 3}, interceptions : {0, 1},
    rushing_yards : YardValues, rushing_tds : {0, 1},
    receiving_yards : YardValues, receiving_tds : {0, 1}, receptions : {0, 1, 5},
    fumbles_lost : {0, 1}, kick_return_tds : {0, 1}, punt_return_tds : {0, 1} ]

NoStat == [ passing_yards |-> 0, passing_tds |-> 0, interceptions |-> 0,
            rushing_yards |-> 0, rushing_tds |-> 0,
            receiving_yards |-> 0, receiving_tds |-> 0, receptions |-> 0,
            fumbles_lost |-> 0, kick_return_tds |-> 0, punt_return_tds |-> 0 ]

ComputePoints ==
  /\ IsNull(fantasy_points)
  /\ \E err \in FloatErr : fantasy_points' = {computePoints(stat, err)}
  /\ UNCHANGED <<stat, snakeVars, runVars, tables, catalog, draftVars, extractVars, leaguePage>>

PointsInit ==
  /\ stat \in StatLines
  /\ fantasy_points = {}

(***************************************************************************)
(* Stat extraction (scoreEvent.mjs, toInt and extractStatsFromSummary)     *)
(* A text is a sequence of one-character strings.                          *)
(***************************************************************************)
Digits == {"0", "1", "2", "3", "4", "5", "6", "7", "8", "9"}

DigitVal(c) ==
  CASE c = "0" -> 0 [] c = "1" -> 1 [] c = "2" -> 2 [] c = "3" -> 3 [] c = "4" -> 4
    [] c = "5" -> 5 [] c = "6" -> 6 [] c = "7" -> 7 [] c = "8" -> 8 [] c = "9" -> 9

\* String(x).replace(/[^\d-]/g, "")
StripNonDigits(txt) == SelectSeq(txt, LAMBDA c : c \in Digits \cup {"-"})

\* the value of the longest run of digits starting at position i ({} when none)
RECURSIVE DigitRun(_, _, _)
DigitRun(txt, i, sofar) ==
  IF i > Len(txt) \/ txt[i] \notin Digits THEN sofar
  ELSE DigitRun(txt, i + 1, {10 * (IF IsNull(sofar) THEN 0 ELSE Val(sofar)) + DigitVal(txt[i])})

\* parseInt(txt, 10): an optional sign, then digits; {} stands for NaN
ParseInt(txt) ==
  IF Len(txt) > 0 /\ txt[1] = "-"
    THEN LET m == DigitRun(txt, 2, {}) IN IF IsNull(m) THEN {} ELSE {-Val(m)}
    ELSE DigitRun(txt, 1, {})

\* a plausible slip: a failed parse is reported as -1 instead of 0
toIntFailureAsMinusOne(x) ==
  IF IsNull(x) THEN 0
  ELSE LET n == ParseInt(StripNonDigits(Val(x))) IN IF IsNull(n) THEN -1 ELSE Val(n)

\* toInt(x): x is {} (null/undefined) or {text}
toInt(x) ==
  IF IsNull(x) THEN 0
  ELSE LET n == ParseInt(StripNonDigits(Val(x))) IN IF IsNull(n) THEN 0 ELSE Val(n)

\* String.prototype.toLowerCase on the names and labels of the box scores
LowerCase ==
  ("YDS" :> "yds") @@ ("TD" :> "td") @@ ("INT" :> "int") @@ ("REC" :> "rec")
  @@ ("LOST" :> "lost") @@ ("FUM" :> "fum") @@ ("CAR" :> "car") @@ ("C/ATT" :> "c/att")
  @@ ("kickReturns" :> "kickreturns") @@ ("puntReturns" :> "puntreturns")

toLowerCase(str) == IF str \in DOMAIN LowerCase THEN LowerCase[str] ELSE str

\* name.includes("fumble") and label.includes("lost") over the lower-cased vocabulary
IncludesFumble(name) == name \in {"fumble", "fumbles", "fumbleslost"}
IncludesLost(label) == label \in {"lost", "fumbles lost"}

\* getOrInit's fresh accumulator
NewStatLine(athleteId, teamAbbr) ==
  [ espn_athlete_id |-> athleteId, team_abbr |-> teamAbbr,
    passing_yards |-> 0, passing_tds |-> 0, interceptions |-> 0,
    rushing_yards |-> 0, rushing_tds |-> 0,
    receiving_yards |-> 0, receiving_tds |-> 0, receptions |-> 0,
    fumbles_lost |-> 0, kick_return_tds |-> 0, punt_return_tds |-> 0 ]

\* a plausible slip: the receptions column is added to the receiving yards
FieldOfReceptionsAsYards(name, label) ==
  CASE name = "passing" /\ label = "yds" -> "passing_yards"
    [] name = "passing" /\ label = "td" -> "passing_tds"
    [] name = "passing" /\ label = "int" -> "interceptions"
    [] name = "rushing" /\ label = "yds" -> "rushing_yards"
    [] name = "rushing" /\ label = "td" -> "rushing_tds"
    [] name = "receiving" /\ label = "yds" -> "receiving_yards"
    [] name = "receiving" /\ label = "td" -> "receiving_tds"
    [] name = "receiving" /\ label = "rec" -> "receiving_yards"
    [] name = "kickreturns" /\ label = "td" -> "kick_return_tds"
    [] name = "puntreturns" /\ label = "td" -> "punt_return_tds"
    [] IncludesFumble(name) /\ IncludesLost(label) -> "fumbles_lost"
    [] OTHER -> Null

\* the stat-line field a column (category name, label) adds to, or Null
FieldOf(name, label) ==
  CASE name = "passing" /\ label = "yds" -> "passing_yards"
    [] name = "passing" /\ label = "td" -> "passing_tds"
    [] name = "passing" /\ label = "int" -> "interceptions"
    [] name = "rushing" /\ label = "yds" -> "rushing_yards"
    [] name = "rushing" /\ label = "td" -> "rushing_tds"
    [] name = "receiving" /\ label = "yds" -> "receiving_yards"
    [] name = "receiving" /\ label = "td" -> "receiving_tds"
    [] name = "receiving" /\ label = "rec" -> "receptions"
    [] name = "kickreturns" /\ label = "td" -> "kick_return_tds"
    [] name = "puntreturns" /\ label = "td" -> "punt_return_tds"
    [] IncludesFumble(name) /\ IncludesLost(label) -> "fumbles_lost"
    [] OTHER -> Null

\* the body of the label loop for column i of one athlete row
RECURSIVE ApplyLabels(_, _, _, _, _)
ApplyLabels(s, name, labels, values, i) ==
  IF i > Len(labels) THEN s
  ELSE LET label == toLowerCase(labels[i])
           val == IF i <= Len(values) THEN {values[i]} ELSE {}
           f == FieldOf(name, label)
           s2 == IF f = Null THEN s ELSE [s EXCEPT ![f] = @ + toInt(val)]
       IN ApplyLabels(s2, name, labels, values, i + 1)

RECURSIVE IndexOfAthlete(_, _, _)
IndexOfAthlete(acc, athleteId, i) ==
  IF i > Len(acc) THEN 0
  ELSE IF acc[i].espn_athlete_id = athleteId THEN i
  ELSE IndexOfAthlete(acc, athleteId, i + 1)

\* one athlete row of a category: getOrInit, then the label loop
ProcessRow(acc, teamAbbr, name, labels, row) ==
  IF row.athlete_id = Null THEN acc
  ELSE LET acc1 == IF IndexOfAthlete(acc, row.athlete_id, 1) = 0
                     THEN Append(acc, NewStatLine(row.athlete_id, teamAbbr))
                     ELSE acc
           k == IndexOfAthlete(acc1, row.athlete_id, 1)
           obj == IF acc1[k].team_abbr = Null /\ teamAbbr # Null
                    THEN [acc1[k] EXCEPT !.team_abbr = teamAbbr]
                    ELSE acc1[k]
       IN [acc1 EXCEPT ![k] = ApplyLabels(obj, name, labels, row.stats, 1)]

RECURSIVE ProcessRows(_, _, _, _, _, _)
ProcessRows(acc, teamAbbr, name, labels, rows, i) ==
  IF i > Len(rows) THEN acc
  ELSE ProcessRows(ProcessRow(acc, teamAbbr, name, labels, rows[i]),
                   teamAbbr, name, labels, rows, i + 1)

RECURSIVE ProcessGroups(_, _, _, _)
ProcessGroups(acc, teamAbbr, groups, i) ==
  IF i > Len(groups) THEN acc
  ELSE ProcessGroups(ProcessRows(acc, teamAbbr, toLowerCase(groups[i].name),
                                 groups[i].labels, groups[i].athletes, 1),
                     teamAbbr, groups, i + 1)

RECURSIVE ProcessBlocks(_, _, _)
ProcessBlocks(acc, blocks, i) ==
  IF i > Len(blocks) THEN acc
  ELSE ProcessBlocks(ProcessGroups(acc, blocks[i].team_abbr, blocks[i].statistics, 1),
                     blocks, i + 1)

\* extractStatsFromSummary: summary.players is {} when boxscore.players is no array
extractStatsFromSummary(summaryJson) ==
  IF IsNull(summaryJson.players) THEN <<>>
  ELSE ProcessBlocks(<<>>, Val(summaryJson.players), 1)

(***************************************************************************)
(* The provider's summaries the runs may fetch                             *)
(***************************************************************************)
Events == {"e1", "e2"}
Runners == {"r1", "r2"}

Row(id, stats) == [athlete_id |-> id, stats |-> stats]

\* final 27-24; a1 passes for 300 yards, 3 TD, 1 INT; a2 rushes for 35; a3 is targeted
SummaryA ==
  [ status |-> "STATUS_FINAL",
    home |-> [id |-> "12", score |-> {<<"2", "7">>}],
    away |-> [id |-> "2", score |-> {<<"2", "4">>}],
    players |-> {<<
      [ team_abbr |-> "KC",
        statistics |-> <<
          [ name |-> "passing", labels |-> <<"C/ATT", "YDS", "TD", "INT">>,
            athletes |-> << Row("a1", << <<"2","5","/","3","0">>, <<"3","0","0">>, <<"3">>, <<"1">> >>) >> ],
          [ name |-> "rushing", labels |-> <<"CAR", "YDS", "TD">>,
            athletes |-> << Row("a2", << <<"1","0">>, <<"3","5">>, <<"0">> >>) >> ],
          [ name |-> "receiving", labels |-> <<"REC", "YDS", "TD">>,
            athletes |-> << Row("a3", << <<"0">>, <<"0">>, <<"0">> >>) >> ] >> ] >>} ]

\* in progress 7-7; two team blocks, a2 in two categories, a lost fumble, a
\* malformed value, a row without an athlete id and an unknown category
SummaryB ==
  [ status |-> "STATUS_IN_PROGRESS",
    home |-> [id |-> "12", score |-> {<<"7">>}],
    away |-> [id |-> "2", score |-> {<<"7">>}],
    players |-> {<<
      [ team_abbr |-> "KC",
        statistics |-> <<
          [ name |-> "passing", labels |-> <<"YDS", "TD", "INT">>,
            athletes |-> << Row("a1", << <<"1","2","0">>, <<"1">>, <<"-","-">> >>) >> ],
          [ name |-> "defensive", labels |-> <<"TD">>,
            athletes |-> << Row("a3", << <<"1">> >>) >> ] >> ],
      [ team_abbr |-> "BUF",
        statistics |-> <<
          [ name |-> "receiving", labels |-> <<"REC", "YDS", "TD">>,
            athletes |-> << Row("a2", << <<"2">>, <<"-","3">>, <<"0">> >>),
                            Row(Null, << <<"9">>, <<"9">>, <<"9">> >>) >> ],
          [ name |-> "fumbles", labels |-> <<"FUM", "LOST", "REC">>,
            athletes |-> << Row("a2", << <<"1">>, <<"1">> >>) >> ],
          [ name |-> "kickReturns", labels |-> <<"YDS", "TD">>,
            athletes |-> << Row("a2", << <<"4","0">>, <<"1">> >>) >> ] >> ] >>} ]

\* scheduled: no scores and no box score yet
SummaryC ==
  [ status |-> "STATUS_SCHEDULED",
    home |-> [id |-> "12", score |-> {}],
    away |-> [id |-> "2", score |-> {}],
    players |-> {} ]

Summaries == {SummaryA, SummaryB, SummaryC}

(***************************************************************************)
(* League page (src/app/league/[id]/page.tsx): the expandable standings    *)
(* rows and the realtime effect of one open page                           *)
(* leaguePage has the fields                                               *)
(*   expandedTeams         the state expandedTeams of the latest render    *)
(*   closure               expandedTeams as the realtime effect closed     *)
(*                         over it when it subscribed                      *)
(*   playerPointsByUserId  the keys of the state playerPointsByUserId      *)
(*   refetched             the users the last player_event_points handler  *)
(*                         called fetchPlayerPoints for                    *)
(*   standingsTimer        {} or {the id the last setTimeout returned}     *)
(*   timers                the ids of the timeouts that have not fired     *)
(*   refreshes             refreshStandings calls made by a timeout        *)
(*   burst                 league_team_event_points notifications since    *)
(*                         the last such call                              *)
(*   subscribed            the effect has run and its cleanup has not      *)
(*   events                notifications delivered so far                  *)
(*   pointEvents           player_event_points notifications among them    *)
(***************************************************************************)
Teams == {"A", "B"}

\* the page after its first render and the run of the realtime effect
MountedLeaguePage ==
  [ expandedTeams |-> {}, closure |-> {}, playerPointsByUserId |-> {},
    refetched |-> {}, standingsTimer |-> {}, timers |-> {}, refreshes |-> 0,
    burst |-> 0, subscribed |-> TRUE, events |-> 0, pointEvents |-> 0 ]

IdleLeaguePage == leaguePage = [MountedLeaguePage EXCEPT !.subscribed = FALSE]

LeaguePageInit == leaguePage = MountedLeaguePage

leagueRest == <<snakeVars, pointVars, runVars, tables, catalog, draftVars, extractVars>>

\* lines 525-536: the click on a standings row
ToggleTeam(userId) ==
  /\ leaguePage.subscribed
  /\ leaguePage' =
       IF userId \in leaguePage.expandedTeams
         THEN [leaguePage EXCEPT !.expandedTeams = @ \ {userId}]
         ELSE [leaguePage EXCEPT !.expandedTeams = @ \cup {userId},
                                 !.playerPointsByUserId = @ \cup {userId}]
  /\ UNCHANGED leagueRest

\* lines 355-366: the player_event_points handler, with the expandedTeams of the
\* render in which the effect ran
PlayerPointsChanged ==
  /\ leaguePage.subscribed /\ leaguePage.events < MaxEvents
  /\ leaguePage' = [leaguePage EXCEPT !.refetched = leaguePage.closure,
                                      !.playerPointsByUserId = @ \cup leaguePage.closure,
                                      !.events = @ + 1, !.pointEvents = @ + 1]
  /\ UNCHANGED leagueRest

\* a plausible slip: the pending timeout is not cleared before the next is set
scheduleStandingsRefreshNoClear(timers, standingsTimer, id) == timers \cup {id}

\* lines 313-316: the timeouts pending after scheduleStandingsRefresh has set
\* the timeout id
scheduleStandingsRefresh(timers, standingsTimer, id) ==
  (timers \ standingsTimer) \cup {id}

\* lines 350-354: the league_team_event_points handler
TeamPointsChanged ==
  /\ leaguePage.subscribed /\ leaguePage.events < MaxEvents
  /\ LET id == leaguePage.events + 1 IN
       leaguePage' = [leaguePage EXCEPT
         !.timers = scheduleStandingsRefresh(leaguePage.timers,
                                             leaguePage.standingsTimer, id),
         !.standingsTimer = {id},
         !.burst = @ + 1, !.events = @ + 1]
  /\ UNCHANGED leagueRest

\* line 315: 150 ms have passed since the timeout was set: refreshStandings()
StandingsTimerFires ==
  /\ \E id \in leaguePage.timers :
       leaguePage' = [leaguePage EXCEPT !.timers = @ \ {id},
                                        !.refreshes = @ + 1, !.burst = 0]
  /\ UNCHANGED leagueRest

\* lines 369-372: the cleanup of the effect
Teardown ==
  /\ leaguePage.subscribed
  /\ leaguePage' = [leaguePage EXCEPT !.timers = @ \ leaguePage.standingsTimer,
                                      !.subscribed = FALSE]
  /\ UNCHANGED leagueRest

LeaguePageNext ==
  \/ \E userId \in Teams : ToggleTeam(userId)
  \/ PlayerPointsChanged
  \/ TeamPointsChanged
  \/ StandingsTimerFires
  \/ Teardown

(***************************************************************************)
(* toInt and extractStatsFromSummary called on their own                   *)
(***************************************************************************)
\* the texts of at most k characters over the character set chars
TextsOver(chars, k) == UNION { [1..m -> chars] : m \in 0..k }

\* what toInt may be handed: null/undefined, or a text with digits, signs and
\* other characters
ToIntArgs == {{}} \cup { {t} : t \in TextsOver({"1", "2", "-", "x", "."}, MaxLen) }

\* what a cell of an athlete row may hold
CellTexts == TextsOver({"7", "-", "x"}, MaxCellLen)

CategoryNames ==
  {"passing", "rushing", "receiving", "kickReturns", "puntReturns", "fumbles",
   "defensive"}
ColumnLabels == {"YDS", "TD", "INT", "REC", "LOST", "CAR"}

StatGroup(name, labels, athletes) ==
  [name |-> name, labels |-> labels, athletes |-> athletes]
TeamBlock(teamAbbr, groups) == [team_abbr |-> teamAbbr, statistics |-> groups]

\* a box score of two athlete rows. The first row, of athlete a1, has an
\* unrecognized first column and a second column of any category, label and
\* value (cell is {} when the row has no value for it); the second row is in the
\* same category, in another category of the same team block, or in another
\* team block, and is of a1, of a2 or without an athlete id
BoxScoreOf(name1, label1, cell, name2, label2, id2, where) ==
  LET half == <<"1", "/", "2">>
      row1 == Row("a1", IF IsNull(cell) THEN <<half>> ELSE <<half, Val(cell)>>)
      labels1 == <<"C/ATT", label1>>
  IN [ status |-> "STATUS_FINAL",
       home |-> [id |-> "12", score |-> {}],
       away |-> [id |-> "2", score |-> {}],
       players |-> {
         CASE where = "same_category" ->
                << TeamBlock("KC", << StatGroup(name1, labels1,
                                                << row1, Row(id2, <<half, <<"7">> >>) >>) >>) >>
           [] where = "same_block" ->
                << TeamBlock("KC", << StatGroup(name1, labels1, <<row1>>),
                                      StatGroup(name2, <<label2>>,
                                                << Row(id2, << <<"7">> >>) >>) >>) >>
           [] OTHER ->
                << TeamBlock("KC", << StatGroup(name1, labels1, <<row1>>) >>),
                   TeamBlock("BUF", << StatGroup(name2, <<label2>>,
                                                 << Row(id2, << <<"7">> >>) >>) >>) >> } ]

BoxScores ==
  { BoxScoreOf(name1, label1, cell, name2, label2, id2, where) :
      name1 \in CategoryNames, label1 \in ColumnLabels,
      cell \in {{}} \cup { {t} : t \in CellTexts },
      name2 \in {"passing", "fumbles"}, label2 \in {"YDS", "LOST"},
      id2 \in {"a1", "a2", Null},
      where \in {"same_category", "same_block", "other_block"} }
  \cup {SummaryB, SummaryC}

IdleExtract ==
  summary = <<>> /\ extracted = {} /\ toIntArg = <<>> /\ toIntRet = {}

ExtractInit ==
  /\ extracted = {} /\ toIntRet = {}
  /\ \/ toIntArg = <<>> /\ \E doc \in BoxScores : summary = <<doc>>
     \/ summary = <<>> /\ \E x \in ToIntArgs : toIntArg = <<x>>

\* stats = extractStatsFromSummary(summary)
ExtractStats ==
  /\ summary # <<>> /\ extracted = {}
  /\ extracted' = {extractStatsFromSummary(summary[1])}
  /\ UNCHANGED <<summary, toIntArg, toIntRet, snakeVars, pointVars, runVars,
                 tables, catalog, draftVars, leaguePage>>

\* toInt(x)
CallToInt ==
  /\ toIntArg # <<>> /\ toIntRet = {}
  /\ toIntRet' = {toInt(toIntArg[1])}
  /\ UNCHANGED <<summary, extracted, toIntArg, snakeVars, pointVars, runVars,
                 tables, catalog, draftVars, leaguePage>>

ExtractNext == ExtractStats \/ CallToInt

(***************************************************************************)
(* The catalog the runs read: leagues, draft picks, players                *)
(***************************************************************************)
Pick(l, u, p) == [league_id |-> l, user_id |-> u, player_id |-> p]

\* the draft picks a league may hold when the runs take place:
\* u1 drafted p2 and p4, u2 drafted p3 (who has no athlete id)
PicksMixed(l) == << Pick(l, "u1", "p2"), Pick(l, "u1", "p4"), Pick(l, "u2", "p3") >>
\* the only drafted player has no athlete id
PicksNoAthleteId(l) == << Pick(l, "u1", "p3") >>
\* one player each, both with an athlete id
PicksTwoOwners(l) == << Pick(l, "u1", "p1"), Pick(l, "u2", "p2") >>

LeaguePicks(l) == { <<>>, PicksMixed(l), PicksNoAthleteId(l), PicksTwoOwners(l) }

\* players: p3 has no ESPN athlete id
PlayerRows ==
  << [id |-> "p1", espn_athlete_id |-> "a1", name |-> "QB One"],
     [id |-> "p2", espn_athlete_id |-> "a2", name |-> "RB Two"],
     [id |-> "p3", espn_athlete_id |-> Null, name |-> "WR Three"],
     [id |-> "p4", espn_athlete_id |-> "a3", name |-> "TE Four"] >>

SeqToSet(s) == { s[i] : i \in 1..Len(s) }

EmptyLocal ==
  [ summary |-> {}, stats |-> <<>>, pointsRows |-> {}, leagues |-> <<>>, li |-> 0,
    picks |-> <<>>, players |-> <<>>, teamPointsRows |-> {} ]

Step(name, l) == [step |-> name, league |-> l]

Snapshot ==
  [ nfl_events |-> nfl_events, player_event_stats |-> player_event_stats,
    player_event_points |-> player_event_points,
    league_team_event_points |-> league_team_event_points ]

(***************************************************************************)
(* Tables of the backing store                                             *)
(***************************************************************************)
\* onConflict: "id" and onConflict: "event_id,espn_athlete_id"
EventKey(row) == row.id
AthleteKey(row) == <<row.event_id, row.espn_athlete_id>>

\* nfl_events.upsert(rows, {onConflict: "id"}): a row replaces the stored row of its key
UpsertEvents(table, rows) ==
  { t \in table : \A n \in rows : EventKey(t) # EventKey(n) } \cup rows

\* a plausible slip: a plain insert where the upsert on the key is meant
UpsertByAthleteInsertOnly(table, rows) == table \cup rows

\* upsert(rows, {onConflict: "event_id,espn_athlete_id"})
UpsertByAthlete(table, rows) ==
  { t \in table : \A n \in rows : AthleteKey(t) # AthleteKey(n) } \cup rows

\* a plausible slip: .delete().eq("league_id", leagueId) without the event filter
DeleteScopeLeagueOnly(row, leagueId, evId) ==
  row.league_id = leagueId

\* .delete().eq("league_id", leagueId).eq("event_id", eventId)
DeleteScope(row, leagueId, evId) ==
  row.league_id = leagueId /\ row.event_id = evId

\* the rows of a bag that lie in S, with their multiplicities
BagRestrict(B, S) == [ x \in S \cap DOMAIN B |-> B[x] ]

\* a plausible slip: the insert is issued without the preceding delete
DeleteRowsSkipped(B, leagueId, evId) == B

\* league_team_event_points after the delete request
DeleteRows(B, leagueId, evId) ==
  BagRestrict(B, { row \in DOMAIN B : ~DeleteScope(row, leagueId, evId) })

\* league_team_event_points after .insert(teamPointsRows)
InsertRows(B, rows) == B (+) SetToBag(rows)

(***************************************************************************)
(* upsertEvent                                                             *)
(***************************************************************************)
\* team?.score ? parseInt(team.score, 10) : null  (NaN is stored as null)
ParseScore(score) ==
  IF IsNull(score) \/ Val(score) = <<>> THEN {} ELSE ParseInt(Val(score))

\* a plausible slip: the home team is compared with >=, so a tie goes to it
EventRowTieToHome(evId, summaryJson) ==
  LET status == summaryJson.status
      homeScore == ParseScore(summaryJson.home.score)
      awayScore == ParseScore(summaryJson.away.score)
      winnerId ==
        IF status = "STATUS_FINAL" /\ ~IsNull(homeScore) /\ ~IsNull(awayScore)
          THEN IF Val(homeScore) >= Val(awayScore) THEN summaryJson.home.id
               ELSE summaryJson.away.id
          ELSE Null
  IN [ id |-> evId, status |-> status,
       home_team_id |-> summaryJson.home.id, away_team_id |-> summaryJson.away.id,
       home_score |-> homeScore, away_score |-> awayScore, winner_id |-> winnerId ]

\* the row upsertEvent writes to nfl_events
EventRow(evId, summaryJson) ==
  LET status == summaryJson.status
      homeScore == ParseScore(summaryJson.home.score)
      awayScore == ParseScore(summaryJson.away.score)
      winnerId ==
        IF status = "STATUS_FINAL" /\ ~IsNull(homeScore) /\ ~IsNull(awayScore)
          THEN IF Val(homeScore) > Val(awayScore) THEN summaryJson.home.id
               ELSE IF Val(awayScore) > Val(homeScore) THEN summaryJson.away.id
               ELSE Null
          ELSE Null
  IN [ id |-> evId, status |-> status,
       home_team_id |-> summaryJson.home.id, away_team_id |-> summaryJson.away.id,
       home_score |-> homeScore, away_score |-> awayScore, winner_id |-> winnerId ]

(***************************************************************************)
(* updateLeagueTeamPoints: the pure part between the reads and the writes  *)
(***************************************************************************)
\* playerToAthleteMap.get(playerId): Null when the player is missing or has no id
AthleteOf(playerRows, playerId) ==
  LET hit == { i \in 1..Len(playerRows) : playerRows[i].id = playerId } IN
    IF hit = {} THEN Null
    ELSE playerRows[CHOOSE i \in hit : \A j \in hit : i >= j].espn_athlete_id

RECURSIVE SumRows(_)
SumRows(rows) ==
  IF rows = {} THEN 0
  ELSE LET x == CHOOSE y \in rows : TRUE IN x.fantasy_points + SumRows(rows \ {x})

\* athletePointsMap.get(athleteId) || 0
AthletePoints(eventPoints, athleteId) ==
  SumRows({ row \in eventPoints : row.espn_athlete_id = athleteId })

\* the inner loop over playerIdsList: totalPoints in hundredths
RECURSIVE TotalPoints(_, _, _, _)
TotalPoints(picks, userId, playerRows, eventPoints) ==
  IF picks = <<>> THEN 0
  ELSE LET pick == Head(picks)
           athleteId == AthleteOf(playerRows, pick.player_id)
           points == IF pick.user_id = userId /\ athleteId # Null
                       THEN AthletePoints(eventPoints, athleteId) ELSE 0
       IN points + TotalPoints(Tail(picks), userId, playerRows, eventPoints)

\* a plausible slip: a row is pushed only for an owner whose total is not 0
TeamPointsRowsNonZero(evId, leagueId, picks, playerRows, eventPoints, err) ==
  { row \in
      { [ event_id |-> evId, league_id |-> leagueId, user_id |-> u,
          fantasy_points |->
            ToFixed2(10000 * TotalPoints(picks, u, playerRows, eventPoints) + err) ] :
        u \in { picks[i].user_id : i \in 1..Len(picks) } } :
    row.fantasy_points # 0 }

\* teamPointsRows: one row per key of userPlayersMap
TeamPointsRows(evId, leagueId, picks, playerRows, eventPoints, err) ==
  { [ event_id |-> evId, league_id |-> leagueId, user_id |-> u,
      fantasy_points |->
        ToFixed2(10000 * TotalPoints(picks, u, playerRows, eventPoints) + err) ] :
    u \in { picks[i].user_id : i \in 1..Len(picks) } }

(***************************************************************************)
(* main: one action per awaited request, with the synchronous code that    *)
(* follows it up to the next await                                         *)
(***************************************************************************)
idleOthers == <<snakeVars, pointVars, catalog, runners, draftVars, extractVars, leaguePage>>

Exited(r) == pc[r] \in {"idle", "done", "failed"}

\* throw ... -> main().catch: console.error(e); process.exit(1)
Fail(r, step) ==
  /\ pc' = [pc EXCEPT ![r] = "failed"]
  /\ local' = [local EXCEPT ![r] = EmptyLocal]
  /\ log' = [log EXCEPT ![r] = Append(@, Step(step, Null))]

\* node scripts/scoreEvent.mjs <EVENT_ID>
StartRun(r, e) ==
  /\ r \in runners /\ Exited(r) /\ runs < MaxRuns
  /\ runs' = runs + 1
  /\ eventId' = [eventId EXCEPT ![r] = e]
  /\ pc' = [pc EXCEPT ![r] = "fetch"]
  /\ local' = [local EXCEPT ![r] = EmptyLocal]
  /\ log' = [log EXCEPT ![r] = <<>>]
  /\ atStart' = [atStart EXCEPT ![r] = Snapshot]
  /\ UNCHANGED <<prevRollup, tables, idleOthers>>

\* node scripts/scoreEvent.mjs without an argument: usage, exit 1
StartWithoutEvent(r) ==
  /\ r \in runners /\ Exited(r) /\ runs < MaxRuns
  /\ runs' = runs + 1
  /\ eventId' = [eventId EXCEPT ![r] = Null]
  /\ pc' = [pc EXCEPT ![r] = "failed"]
  /\ local' = [local EXCEPT ![r] = EmptyLocal]
  /\ log' = [log EXCEPT ![r] = <<Step("usage", Null)>>]
  /\ atStart' = [atStart EXCEPT ![r] = Snapshot]
  /\ UNCHANGED <<prevRollup, tables, idleOthers>>

\* a plausible slip: the event row is written before res.ok is looked at
FetchFailAfterWrite(r) ==
  /\ pc[r] = "fetch"
  /\ Fail(r, "fetch_failed")
  /\ nfl_events' = UpsertEvents(nfl_events,
                          {[ id |-> eventId[r], status |-> Null,
                             home_team_id |-> Null, away_team_id |-> Null,
                             home_score |-> {}, away_score |-> {}, winner_id |-> Null ]})
  /\ UNCHANGED <<runs, eventId, atStart, prevRollup, player_event_stats,
                 player_event_points, league_team_event_points, idleOthers>>

\* fetch rejects, or res.ok is false: throw
FetchFail(r) ==
  /\ pc[r] = "fetch"
  /\ Fail(r, "fetch_failed")
  /\ UNCHANGED <<runs, eventId, atStart, prevRollup, tables, idleOthers>>

\* res.ok: summary = await res.json(); upsertEvent is the next request
FetchOk(r, summaryJson) ==
  /\ pc[r] = "fetch"
  /\ pc' = [pc EXCEPT ![r] = "upsertEvent"]
  /\ local' = [local EXCEPT ![r].summary = {summaryJson}]
  /\ log' = [log EXCEPT ![r] = Append(@, Step("fetch", Null))]
  /\ UNCHANGED <<runs, eventId, atStart, prevRollup, tables, idleOthers>>

\* upsertEvent succeeds; stats = extractStatsFromSummary(summary)
UpsertEventOk(r) ==
  /\ pc[r] = "upsertEvent"
  /\ nfl_events' = UpsertEvents(nfl_events, {EventRow(eventId[r], Val(local[r].summary))})
  /\ pc' = [pc EXCEPT ![r] = "upsertStats"]
  /\ local' = [local EXCEPT ![r].stats = extractStatsFromSummary(Val(local[r].summary))]
  /\ log' = [log EXCEPT ![r] = @ \o <<Step("upsert_event", Null), Step("extract_stats", Null)>>]
  /\ UNCHANGED <<runs, eventId, atStart, prevRollup, player_event_stats,
                 player_event_points, league_team_event_points, idleOthers>>

\* upsertEvent: if (error) throw error
UpsertEventErr(r) ==
  /\ pc[r] = "upsertEvent"
  /\ Fail(r, "upsert_event_failed")
  /\ UNCHANGED <<runs, eventId, atStart, prevRollup, tables, idleOthers>>

\* pointsRows = stats.map(... computePoints(s) ...)
PointsRowsOf(evId, stats, errs) ==
  { [ event_id |-> evId, espn_athlete_id |-> stats[i].espn_athlete_id,
      fantasy_points |-> computePoints(stats[i], errs[i]) ] : i \in 1..Len(stats) }

\* player_event_stats upsert succeeds; the points rows are computed
UpsertStatsOk(r) ==
  /\ pc[r] = "upsertStats"
  /\ LET stats == local[r].stats IN
     /\ player_event_stats' =
          UpsertByAthlete(player_event_stats,
                          { ("event_id" :> eventId[r]) @@ stats[i] : i \in 1..Len(stats) })
     /\ \E errs \in [1..Len(stats) -> FloatErr] :
          local' = [local EXCEPT ![r].pointsRows = PointsRowsOf(eventId[r], stats, errs)]
  /\ pc' = [pc EXCEPT ![r] = "upsertPoints"]
  /\ log' = [log EXCEPT ![r] = @ \o <<Step("persist_stats", Null), Step("compute_points", Null)>>]
  /\ UNCHANGED <<runs, eventId, atStart, prevRollup, nfl_events,
                 player_event_points, league_team_event_points, idleOthers>>

\* if (statsErr) throw statsErr
UpsertStatsErr(r) ==
  /\ pc[r] = "upsertStats"
  /\ Fail(r, "persist_stats_failed")
  /\ UNCHANGED <<runs, eventId, atStart, prevRollup, tables, idleOthers>>

\* player_event_points upsert succeeds; updateLeagueTeamPoints starts
UpsertPointsOk(r) ==
  /\ pc[r] = "upsertPoints"
  /\ player_event_points' = UpsertByAthlete(player_event_points, local[r].pointsRows)
  /\ pc' = [pc EXCEPT ![r] = "selectLeagues"]
  /\ log' = [log EXCEPT ![r] = Append(@, Step("persist_points", Null))]
  /\ UNCHANGED <<runs, eventId, local, atStart, prevRollup, nfl_events,
                 player_event_stats, league_team_event_points, idleOthers>>

\* a plausible slip: ptsErr is logged and the run goes on to the team rollup
UpsertPointsErrLogged(r) ==
  /\ pc[r] = "upsertPoints"
  /\ pc' = [pc EXCEPT ![r] = "selectLeagues"]
  /\ log' = [log EXCEPT ![r] = Append(@, Step("persist_points_failed", Null))]
  /\ UNCHANGED <<runs, eventId, local, atStart, prevRollup, tables, idleOthers>>

\* if (ptsErr) throw ptsErr
UpsertPointsErr(r) ==
  /\ pc[r] = "upsertPoints"
  /\ Fail(r, "persist_points_failed")
  /\ UNCHANGED <<runs, eventId, atStart, prevRollup, tables, idleOthers>>

(***************************************************************************)
(* updateLeagueTeamPoints                                                  *)
(***************************************************************************)
LeagueOf(r) == local[r].leagues[local[r].li]

\* `continue`, or the end of the loop body: the next league, or return to main
NextLeague(r, steps) ==
  /\ log' = [log EXCEPT ![r] = @ \o steps]
  /\ IF local[r].li < Len(local[r].leagues)
       THEN /\ pc' = [pc EXCEPT ![r] = "selectPicks"]
            /\ local' = [local EXCEPT ![r] =
                 [@ EXCEPT !.li = @ + 1, !.picks = <<>>, !.players = <<>>,
                           !.teamPointsRows = {}]]
       ELSE /\ pc' = [pc EXCEPT ![r] = "done"]
            /\ local' = [local EXCEPT ![r] = EmptyLocal]

\* select id, name from leagues
SelectLeaguesOk(r) ==
  /\ pc[r] = "selectLeagues"
  /\ log' = [log EXCEPT ![r] = Append(@, Step("select_leagues", Null))]
  /\ IF Len(leagues) = 0
       THEN /\ pc' = [pc EXCEPT ![r] = "done"]
            /\ local' = [local EXCEPT ![r] = EmptyLocal]
       ELSE /\ pc' = [pc EXCEPT ![r] = "selectPicks"]
            /\ local' = [local EXCEPT ![r] =
                 [@ EXCEPT !.stats = <<>>, !.pointsRows = {}, !.summary = {},
                           !.leagues = leagues, !.li = 1]]
  /\ UNCHANGED <<runs, eventId, atStart, prevRollup, tables, idleOthers>>

\* if (leaguesErr) throw leaguesErr
SelectLeaguesErr(r) ==
  /\ pc[r] = "selectLeagues"
  /\ Fail(r, "select_leagues_failed")
  /\ UNCHANGED <<runs, eventId, atStart, prevRollup, tables, idleOthers>>

\* a plausible slip: a league without picks is treated as an error that ends the run
SelectPicksOkThrowOnEmpty(r) ==
  /\ pc[r] = "selectPicks"
  /\ LET picks == SelectSeq(draft_picks, LAMBDA p : p.league_id = LeagueOf(r)) IN
       IF Len(picks) = 0
         THEN Fail(r, "skip_no_picks")
         ELSE /\ pc' = [pc EXCEPT ![r] = "selectPlayers"]
              /\ local' = [local EXCEPT ![r].picks = picks]
              /\ log' = [log EXCEPT ![r] = Append(@, Step("read_picks", LeagueOf(r)))]
  /\ UNCHANGED <<runs, eventId, atStart, prevRollup, tables, idleOthers>>

\* select user_id, player_id from draft_picks where league_id = leagueId
SelectPicksOk(r) ==
  /\ pc[r] = "selectPicks"
  /\ LET picks == SelectSeq(draft_picks, LAMBDA p : p.league_id = LeagueOf(r)) IN
       IF Len(picks) = 0
         THEN NextLeague(r, <<Step("skip_no_picks", LeagueOf(r))>>)
         ELSE /\ pc' = [pc EXCEPT ![r] = "selectPlayers"]
              /\ local' = [local EXCEPT ![r].picks = picks]
              /\ log' = [log EXCEPT ![r] = Append(@, Step("read_picks", LeagueOf(r)))]
  /\ UNCHANGED <<runs, eventId, atStart, prevRollup, tables, idleOthers>>

\* if (picksErr) continue
SelectPicksErr(r) ==
  /\ pc[r] = "selectPicks"
  /\ NextLeague(r, <<Step("read_picks_failed", LeagueOf(r))>>)
  /\ UNCHANGED <<runs, eventId, atStart, prevRollup, tables, idleOthers>>

\* athleteIds.length === 0
NoAthleteIds(playerRows) ==
  \A i \in 1..Len(playerRows) : playerRows[i].espn_athlete_id = Null

\* select id, espn_athlete_id, name from players where id in playerIds
SelectPlayersOk(r) ==
  /\ pc[r] = "selectPlayers"
  /\ LET playerIds == { local[r].picks[i].player_id : i \in 1..Len(local[r].picks) }
         playerRows == SelectSeq(players, LAMBDA p : p.id \in playerIds)
     IN IF Len(playerRows) = 0
          THEN NextLeague(r, <<Step("skip_no_players", LeagueOf(r))>>)
          ELSE IF NoAthleteIds(playerRows)
          THEN NextLeague(r, <<Step("skip_no_athlete_ids", LeagueOf(r))>>)
          ELSE /\ pc' = [pc EXCEPT ![r] = "selectPoints"]
               /\ local' = [local EXCEPT ![r].players = playerRows]
               /\ log' = [log EXCEPT ![r] = Append(@, Step("read_players", LeagueOf(r)))]
  /\ UNCHANGED <<runs, eventId, atStart, prevRollup, tables, idleOthers>>

\* if (playersErr) continue
SelectPlayersErr(r) ==
  /\ pc[r] = "selectPlayers"
  /\ NextLeague(r, <<Step("read_players_failed", LeagueOf(r))>>)
  /\ UNCHANGED <<runs, eventId, atStart, prevRollup, tables, idleOthers>>

\* a plausible slip: the points query lacks .eq("event_id", eventId)
EventPointsAllEvents(evId, athleteIds) ==
  { row \in player_event_points : row.espn_athlete_id \in athleteIds }

\* select ... from player_event_points where event_id = eventId and athlete in athleteIds
EventPoints(evId, athleteIds) ==
  { row \in player_event_points :
      row.event_id = evId /\ row.espn_athlete_id \in athleteIds }

\* the points query succeeds; teamPointsRows is built
SelectPointsOk(r) ==
  /\ pc[r] = "selectPoints"
  /\ LET playerRows == local[r].players
         athleteIds == { playerRows[i].espn_athlete_id : i \in 1..Len(playerRows) } \ {Null}
         eventPoints == EventPoints(eventId[r], athleteIds)
     IN \E err \in FloatErr :
          LET rows == TeamPointsRows(eventId[r], LeagueOf(r), local[r].picks,
                                     playerRows, eventPoints, err)
          IN IF rows # {}
               THEN /\ pc' = [pc EXCEPT ![r] = "deleteTeam"]
                    /\ local' = [local EXCEPT ![r].teamPointsRows = rows]
                    /\ log' = [log EXCEPT ![r] = Append(@, Step("read_points", LeagueOf(r)))]
               ELSE NextLeague(r, <<Step("read_points", LeagueOf(r)),
                                    Step("nothing_to_update", LeagueOf(r))>>)
  /\ UNCHANGED <<runs, eventId, atStart, prevRollup, tables, idleOthers>>

\* a plausible slip: pointsErr is thrown instead of skipping the league
SelectPointsErrThrows(r) ==
  /\ pc[r] = "selectPoints"
  /\ Fail(r, "read_points_failed")
  /\ UNCHANGED <<runs, eventId, atStart, prevRollup, tables, idleOthers>>

\* if (pointsErr) continue
SelectPointsErr(r) ==
  /\ pc[r] = "selectPoints"
  /\ NextLeague(r, <<Step("read_points_failed", LeagueOf(r))>>)
  /\ UNCHANGED <<runs, eventId, atStart, prevRollup, tables, idleOthers>>

\* the delete request succeeds; the insert is the next request
DeleteTeamOk(r) ==
  /\ pc[r] = "deleteTeam"
  /\ league_team_event_points' = DeleteRows(league_team_event_points, LeagueOf(r), eventId[r])
  /\ pc' = [pc EXCEPT ![r] = "insertTeam"]
  /\ log' = [log EXCEPT ![r] = Append(@, Step("delete_team", LeagueOf(r)))]
  /\ UNCHANGED <<runs, eventId, local, atStart, prevRollup, nfl_events,
                 player_event_stats, player_event_points, idleOthers>>

\* deleteErr is logged; the insert is not attempted
DeleteTeamErr(r) ==
  /\ pc[r] = "deleteTeam"
  /\ NextLeague(r, <<Step("delete_team_failed", LeagueOf(r))>>)
  /\ UNCHANGED <<runs, eventId, atStart, prevRollup, tables, idleOthers>>

\* what a successful rollup of (event, league) read and left behind
RollupRecord(evId, leagueId, teamRows) ==
  [ picks |-> SelectSeq(draft_picks, LAMBDA p : p.league_id = leagueId),
    players |-> players,
    points |-> { row \in player_event_points : row.event_id = evId },
    rows |-> BagRestrict(teamRows,
                         { row \in DOMAIN teamRows : DeleteScope(row, leagueId, evId) }) ]

\* the last two entries of a sequence
LastTwo(s) == IF Len(s) <= 2 THEN s ELSE SubSeq(s, Len(s) - 1, Len(s))

\* the insert request succeeds
InsertTeamOk(r) ==
  /\ pc[r] = "insertTeam"
  /\ LET after == InsertRows(league_team_event_points, local[r].teamPointsRows) IN
     /\ league_team_event_points' = after
     /\ prevRollup' = [prevRollup EXCEPT ![<<eventId[r], LeagueOf(r)>>] =
                         LastTwo(Append(@, RollupRecord(eventId[r], LeagueOf(r), after)))]
  /\ NextLeague(r, <<Step("insert_team", LeagueOf(r))>>)
  /\ UNCHANGED <<runs, eventId, atStart, nfl_events, player_event_stats,
                 player_event_points, idleOthers>>

\* insertErr is logged
InsertTeamErr(r) ==
  /\ pc[r] = "insertTeam"
  /\ NextLeague(r, <<Step("insert_team_failed", LeagueOf(r))>>)
  /\ UNCHANGED <<runs, eventId, atStart, prevRollup, tables, idleOthers>>

(***************************************************************************)
(* upsertEvent called on its own                                           *)
(***************************************************************************)
\* competitor.score as the provider sends it: absent ({}), or a text
ScoreTexts == { <<>>, <<"0">>, <<"7">>, <<"2", "4">>, <<"2", "7">>, <<"x">> }
GameStatuses == {"STATUS_FINAL", "STATUS_IN_PROGRESS", "STATUS_SCHEDULED", Null}

\* a competitor of the game: missing from the header, or with its score
Competitors(id) ==
  {[id |-> Null, score |-> {}]}
    \cup { [id |-> id, score |-> sc] : sc \in {{}} \cup { {t} : t \in ScoreTexts } }

GameSummaries ==
  { [ status |-> st, home |-> h, away |-> a, players |-> {} ] :
      st \in GameStatuses, h \in Competitors("12"), a \in Competitors("2") }

\* the game is not stored yet, or is stored as final with the home team winning
EventInit ==
  /\ \E doc \in GameSummaries : summary = <<doc>>
  /\ nfl_events \in { {}, {EventRow("e1", SummaryA)} }
  /\ extracted = {} /\ toIntArg = <<>> /\ toIntRet = {}

\* await upsertEvent(eventId, summary)
UpsertEvent ==
  /\ summary # <<>>
  /\ nfl_events' = UpsertEvents(nfl_events, {EventRow("e1", summary[1])})
  /\ summary' = <<>>
  /\ UNCHANGED <<extracted, toIntArg, toIntRet, snakeVars, pointVars, runVars,
                 player_event_stats, player_event_points, league_team_event_points,
                 catalog, draftVars, leaguePage>>

(***************************************************************************)
(* Draft page (src/app/league/[id]/draft/page.tsx): one league, its rows   *)
(* in the backing store, and the pages that have it open                   *)
(***************************************************************************)
Pages == {"t1", "t2"}
Users == {"A", "B"}
Commissioner == "A"
DraftPlayers == {"p1", "p2"}

NoCall ==
  [op |-> "none", at |-> "", n |-> 0, members |-> <<>>, league |-> {}, order |-> <<>>,
   player |-> Null]
NoFeed == [leagues |-> {}, draft_order |-> FALSE, draft_picks |-> {}]

\* a page right after mounting: nothing loaded yet, the picks query in flight
NewPage(user) ==
  [ authUserId |-> user, league |-> {}, members |-> <<>>, order |-> <<>>,
    picks |-> <<>>, error |-> FALSE, busy |-> FALSE, alert |-> Null,
    pending |-> {"draft_picks"} ]

\* ---- queries ----
\* .order("slot", { ascending: true }) over the league's draft_order rows
RECURSIVE OrderBySlot(_)
OrderBySlot(rows) ==
  IF rows = {} THEN <<>>
  ELSE LET first == CHOOSE r \in rows : \A q \in rows : r.slot <= q.slot
       IN <<first>> \o OrderBySlot(rows \ {first})

\* array.sort((a, b) => a.pick_number - b.pick_number): a stable sort
RECURSIVE InsertByPickNumber(_, _)
InsertByPickNumber(sorted, x) ==
  IF sorted = <<>> THEN <<x>>
  ELSE IF sorted[Len(sorted)].pick_number <= x.pick_number THEN Append(sorted, x)
  ELSE Append(InsertByPickNumber(SubSeq(sorted, 1, Len(sorted) - 1), x), sorted[Len(sorted)])

RECURSIVE SortByPickNumber(_)
SortByPickNumber(s) ==
  IF s = <<>> THEN <<>>
  ELSE InsertByPickNumber(SortByPickNumber(SubSeq(s, 1, Len(s) - 1)), s[Len(s)])

\* ---- derived page state (lines 168-212) ----
\* a plausible slip: the two ids are compared without the checks for unset ids
isCommissionerNoNullCheck(p) ==
  /\ ~IsNull(page[p].league)
  /\ Val(page[p].league).commissioner_user_id = page[p].authUserId

isCommissioner(p) ==
  /\ page[p].authUserId # Null
  /\ ~IsNull(page[p].league)
  /\ Val(page[p].league).commissioner_user_id # Null
  /\ Val(page[p].league).commissioner_user_id = page[p].authUserId

leagueStatus(p) ==
  IF IsNull(page[p].league) THEN "pre_draft" ELSE Val(page[p].league).status

preDraft(p) == leagueStatus(p) = "pre_draft"
draftStarted(p) == leagueStatus(p) = "draft"
postDraft(p) == leagueStatus(p) = "post_draft"

draftedPlayerIds(p) == { page[p].picks[i].player_id : i \in 1..Len(page[p].picks) }
availablePlayers(p) == DraftPlayers \ draftedPlayerIds(p)

\* a plausible slip: the pick on the clock is taken to be picks.length
nextPickNumberStale(p) == Len(page[p].picks)

nextPickNumber(p) == Len(page[p].picks) + 1

currentTurnUserId(p) ==
  IF draftStarted(p)
  THEN pickOwnerForSnakeIn(page[p].league, page[p].order, nextPickNumber(p))
  ELSE Null

myTurn(p) ==
  /\ page[p].authUserId # Null
  /\ currentTurnUserId(p) # Null
  /\ currentTurnUserId(p) = page[p].authUserId

\* the page renders its controls only without a load error and with the league loaded
Rendered(p) == ~page[p].error /\ ~IsNull(page[p].league)

\* ---- change feed ----
\* every page is subscribed to the league's channel; a change is queued for each
Listening(q) == ~page[q].error
NotifyLeague(f, row) ==
  [q \in Pages |-> IF Listening(q) THEN [f[q] EXCEPT !.leagues = @ \cup {row}] ELSE f[q]]
NotifyOrder(f) ==
  [q \in Pages |-> IF Listening(q) THEN [f[q] EXCEPT !.draft_order = TRUE] ELSE f[q]]
NotifyPick(f, row) ==
  [q \in Pages |-> IF Listening(q) THEN [f[q] EXCEPT !.draft_picks = @ \cup {row}] ELSE f[q]]

draftRest == <<snakeVars, pointVars, runVars, tables, leagues, players, extractVars, leaguePage,
               response>>
draftIdle == <<draftRest, clicks>>

\* a click on an enabled button
Clicked == clicks < MaxClicks /\ clicks' = clicks + 1

\* ---- initial load of the picks (lines 112-120) ----
\* the query is answered and the answer delivered with nothing in between
LoadPicks(p) ==
  /\ "draft_picks" \in page[p].pending /\ response[p] = {}
  /\ page' = [page EXCEPT ![p].picks = SortByPickNumber(draft_picks),
                          ![p].pending = @ \ {"draft_picks"}]
  /\ UNCHANGED <<call, feed, league_row, draft_order, league_members, nextId,
                 draft_picks, draftIdle>>

\* the two halves of the load on their own. The store answers the query with the
\* picks it holds at that moment
QueryPicks(p) ==
  /\ "draft_picks" \in page[p].pending /\ response[p] = {}
  /\ response' = [response EXCEPT ![p] = {SortByPickNumber(draft_picks)}]
  /\ UNCHANGED <<page, call, feed, league_row, draft_order, league_members, nextId,
                 draft_picks, clicks, snakeVars, pointVars, runVars, tables, leagues,
                 players, extractVars, leaguePage>>

\* line 119: the answer arrives, setPicks(data)
DeliverPicks(p) ==
  /\ response[p] # {}
  /\ page' = [page EXCEPT ![p].picks = Val(response[p]),
                          ![p].pending = @ \ {"draft_picks"}]
  /\ response' = [response EXCEPT ![p] = {}]
  /\ UNCHANGED <<call, feed, league_row, draft_order, league_members, nextId,
                 draft_picks, clicks, snakeVars, pointVars, runVars, tables, leagues,
                 players, extractVars, leaguePage>>

\* the query fails: setError, and from then on the page renders the message and
\* nothing else (line 349); what it held is of no use any more
LoadErr(p) ==
  /\ "draft_picks" \in page[p].pending
  /\ call[p].op = "none"
  /\ page' = [page EXCEPT ![p] = [NewPage(@.authUserId) EXCEPT !.error = TRUE,
                                                              !.pending = {}]]
  /\ feed' = [feed EXCEPT ![p] = NoFeed]
  /\ UNCHANGED <<call, league_row, draft_order, league_members, nextId,
                 draft_picks, draftIdle>>

\* ---- realtime handlers (lines 124-166) ----
\* leagues UPDATE: setLeague((prev) => ({ ...(prev || {}), ...(updated || {}) }))
RealtimeLeague(p) ==
  \E row \in feed[p].leagues :
    /\ page' = [page EXCEPT ![p].league = {row}]
    /\ feed' = [feed EXCEPT ![p].leagues = @ \ {row}]
    /\ UNCHANGED <<call, league_row, draft_order, league_members, nextId,
                   draft_picks, draftIdle>>

\* draft_order change: the order is read again; a failed read changes nothing
RealtimeOrder(p) ==
  /\ feed[p].draft_order
  /\ \/ page' = [page EXCEPT ![p].order = OrderBySlot(draft_order)]
     \/ UNCHANGED page
  /\ feed' = [feed EXCEPT ![p].draft_order = FALSE]
  /\ UNCHANGED <<call, league_row, draft_order, league_members, nextId,
                 draft_picks, draftIdle>>

\* a plausible slip: the merge does not look for the id before appending
MergePickNoDedupe(prev, newPick) ==
  SortByPickNumber(Append(prev, newPick))

\* lines 155-158: ignore a known id, otherwise append and sort by pick_number
MergePick(prev, newPick) ==
  IF \E i \in 1..Len(prev) : prev[i].id = newPick.id THEN prev
  ELSE SortByPickNumber(Append(prev, newPick))

\* draft_picks INSERT, delivered in any order; the pick may already have come
\* with the initial load
RealtimePick(p) ==
  \E newPick \in feed[p].draft_picks :
    /\ page' = [page EXCEPT ![p].picks = MergePick(@, newPick)]
    /\ feed' = [feed EXCEPT ![p].draft_picks = @ \ {newPick}]
    /\ UNCHANGED <<call, league_row, draft_order, league_members, nextId,
                   draft_picks, draftIdle>>

\* ---- setOrderFromJoinOrder (lines 214-267) ----
Alert(p, msg) == page' = [page EXCEPT ![p].alert = msg]

Park(p, op, at) ==
  [NoCall EXCEPT !.op = op, !.at = at, !.n = Len(page[p].members),
                 !.members = page[p].members, !.league = page[p].league,
                 !.order = page[p].order]

setOrderFromJoinOrder(p) ==
  /\ call[p].op = "none"
  /\ LET n == Len(page[p].members) IN
       IF ~isCommissioner(p)
       THEN Alert(p, "Only the commissioner can set draft order.") /\ UNCHANGED call
       ELSE IF n < 2
       THEN Alert(p, "Need at least 2 members to set draft order.") /\ UNCHANGED call
       ELSE IF n > 12
       THEN Alert(p, "Too many members for this MVP. Keep it to 12 max.") /\ UNCHANGED call
       ELSE /\ page' = [page EXCEPT ![p].busy = TRUE]
            /\ call' = [call EXCEPT ![p] = Park(p, "setOrder", "delete")]
  /\ UNCHANGED <<feed, league_row, draft_order, league_members, nextId,
                 draft_picks, draftRest>>

\* the button of lines 430-436
SetOrderEnabled(p) ==
  Rendered(p) /\ isCommissioner(p) /\ ~(page[p].busy \/ draftStarted(p) \/ postDraft(p))

ClickSetOrder(p) == SetOrderEnabled(p) /\ Clicked /\ setOrderFromJoinOrder(p)

\* line 234: delete the league's draft_order rows
SetOrderDeleteOk(p) ==
  /\ call[p].op = "setOrder" /\ call[p].at = "delete"
  /\ draft_order' = {}
  /\ feed' = IF draft_order = {} THEN feed ELSE NotifyOrder(feed)
  /\ call' = [call EXCEPT ![p].at = "update"]
  /\ UNCHANGED <<page, league_row, league_members, nextId, draft_picks, draftIdle>>

\* line 234: the result of the delete is not looked at; after a failure the
\* handler goes on all the same
SetOrderDeleteErr(p) ==
  /\ call[p].op = "setOrder" /\ call[p].at = "delete"
  /\ call' = [call EXCEPT ![p].at = "update"]
  /\ UNCHANGED <<page, feed, league_row, draft_order, league_members, nextId,
                 draft_picks, draftIdle>>

\* line 236: update leagues set num_teams = n
SetOrderUpdateOk(p) ==
  /\ call[p].op = "setOrder" /\ call[p].at = "update"
  /\ league_row' = [league_row EXCEPT !.num_teams = {call[p].n}]
  /\ feed' = NotifyLeague(feed, league_row')
  /\ call' = [call EXCEPT ![p].at = "insert"]
  /\ UNCHANGED <<page, draft_order, league_members, nextId, draft_picks, draftIdle>>

SetOrderUpdateErr(p) ==
  /\ call[p].op = "setOrder" /\ call[p].at = "update"
  /\ page' = [page EXCEPT ![p].busy = FALSE, ![p].alert = "leagueErr.message"]
  /\ call' = [call EXCEPT ![p] = NoCall]
  /\ UNCHANGED <<feed, league_row, draft_order, league_members, nextId,
                 draft_picks, draftIdle>>

\* lines 244-248
OrderInserts(members) ==
  { [slot |-> i, user_id |-> members[i]] : i \in 1..Len(members) }

\* line 250: insert the rows; a slot that is already taken makes the insert fail
SetOrderInsertOk(p) ==
  /\ call[p].op = "setOrder" /\ call[p].at = "insert"
  /\ LET inserts == OrderInserts(call[p].members) IN
       /\ \A r \in inserts : \A q \in draft_order : q.slot # r.slot
       /\ draft_order' = draft_order \cup inserts
  /\ feed' = NotifyOrder(feed)
  /\ call' = [call EXCEPT ![p].at = "select"]
  /\ UNCHANGED <<page, league_row, league_members, nextId, draft_picks, draftIdle>>

SetOrderInsertErr(p) ==
  /\ call[p].op = "setOrder" /\ call[p].at = "insert"
  /\ page' = [page EXCEPT ![p].busy = FALSE, ![p].alert = "error.message"]
  /\ call' = [call EXCEPT ![p] = NoCall]
  /\ UNCHANGED <<feed, league_row, draft_order, league_members, nextId,
                 draft_picks, draftIdle>>

\* lines 258-266: read the order back, setOrder, setLeague, setBusy(false);
\* data is null when the read fails
SetOrderSelect(p) ==
  /\ call[p].op = "setOrder" /\ call[p].at = "select"
  /\ \E data \in {OrderBySlot(draft_order), <<>>} :
       page' = [page EXCEPT
         ![p].order = data,
         ![p].league = IF IsNull(@) THEN @
                       ELSE {[Val(@) EXCEPT !.num_teams = {call[p].n}]},
         ![p].busy = FALSE]
  /\ call' = [call EXCEPT ![p] = NoCall]
  /\ UNCHANGED <<feed, league_row, draft_order, league_members, nextId,
                 draft_picks, draftIdle>>

\* ---- startDraft (lines 269-297) ----
\* lines 276-285: the message of the check that stops the handler, or Null
startDraftGuard(p) ==
  LET n == IF IsNull(page[p].league) \/ IsNull(Val(page[p].league).num_teams)
           THEN Len(page[p].order) ELSE Val(Val(page[p].league).num_teams)
  IN IF n = 0 \/ n < 2 THEN "Need at least 2 teams to start."
     ELSE IF Len(page[p].order) # n THEN "Draft order not set."
     ELSE Null

startDraft(p) ==
  /\ call[p].op = "none"
  /\ IF ~isCommissioner(p)
     THEN Alert(p, "Only the commissioner can start the draft.") /\ UNCHANGED call
     ELSE IF startDraftGuard(p) # Null
     THEN Alert(p, startDraftGuard(p)) /\ UNCHANGED call
     ELSE /\ page' = [page EXCEPT ![p].busy = TRUE]
          /\ call' = [call EXCEPT ![p] = Park(p, "startDraft", "update")]
  /\ UNCHANGED <<feed, league_row, draft_order, league_members, nextId,
                 draft_picks, draftRest>>

\* the button of line 438
StartDraftEnabled(p) ==
  /\ Rendered(p) /\ isCommissioner(p)
  /\ ~(page[p].busy \/ draftStarted(p) \/ postDraft(p) \/ Len(page[p].order) = 0)

ClickStartDraft(p) == StartDraftEnabled(p) /\ Clicked /\ startDraft(p)

\* lines 288-296: update leagues set status = 'draft', then
\* setLeague({ ...league, status: "draft" }) with the league the handler closed over
StartDraftOk(p) ==
  /\ call[p].op = "startDraft"
  /\ league_row' = [league_row EXCEPT !.status = "draft"]
  /\ feed' = NotifyLeague(feed, league_row')
  /\ page' = [page EXCEPT ![p].busy = FALSE,
                          ![p].league = {[Val(call[p].league) EXCEPT !.status = "draft"]}]
  /\ call' = [call EXCEPT ![p] = NoCall]
  /\ UNCHANGED <<draft_order, league_members, nextId, draft_picks, draftIdle>>

StartDraftErr(p) ==
  /\ call[p].op = "startDraft"
  /\ page' = [page EXCEPT ![p].busy = FALSE, ![p].alert = "error.message"]
  /\ call' = [call EXCEPT ![p] = NoCall]
  /\ UNCHANGED <<feed, league_row, draft_order, league_members, nextId,
                 draft_picks, draftIdle>>

\* ---- draftPlayer (lines 299-325) ----
draftPlayer(p, playerId) ==
  /\ call[p].op = "none"
  /\ IF ~draftStarted(p)
     THEN Alert(p, "Draft hasn't started yet.") /\ UNCHANGED call
     ELSE IF page[p].authUserId = Null
     THEN Alert(p, "You must be signed in.") /\ UNCHANGED call
     ELSE IF ~myTurn(p)
     THEN Alert(p, "Not your turn") /\ UNCHANGED call
     ELSE /\ page' = [page EXCEPT ![p].busy = TRUE]
          /\ call' = [call EXCEPT ![p] =
               [Park(p, "make_pick", "rpc") EXCEPT !.player = playerId]]
  /\ UNCHANGED <<feed, league_row, draft_order, league_members, nextId,
                 draft_picks, draftRest>>

\* the Draft button of lines 568-589, one per available player
canDraft(p) == draftStarted(p) /\ ~postDraft(p) /\ myTurn(p) /\ ~page[p].busy

ClickDraft(p, playerId) ==
  /\ Rendered(p) /\ canDraft(p) /\ playerId \in availablePlayers(p)
  /\ Clicked
  /\ draftPlayer(p, playerId)

\* the make_pick procedure of the backing store: the reason it refuses the pick
\* for, or Null when it accepts it
make_pick(p_user_id, p_player_id) ==
  IF league_row.status # "draft" THEN "draft not active"
  ELSE IF pickOwnerForSnakeIn({league_row}, OrderBySlot(draft_order),
                              Len(draft_picks) + 1) # p_user_id
  THEN "not your turn"
  ELSE IF \E i \in 1..Len(draft_picks) : draft_picks[i].player_id = p_player_id
  THEN "player already drafted"
  ELSE Null

\* a plausible slip: the handler appends the pick to the local list on success
draftPlayerDoneOptimistic(pg, playerId, error) ==
  IF error # Null THEN [pg EXCEPT !.busy = FALSE, !.alert = error]
  ELSE [pg EXCEPT !.busy = FALSE,
          !.picks = Append(@, [id |-> 0, league_id |-> "L1", pick_number |-> Len(@) + 1,
                               user_id |-> pg.authUserId, player_id |-> playerId])]

\* lines 320-324: setBusy(false); if (error) alert(error.message)
draftPlayerDone(pg, playerId, error) ==
  IF error # Null THEN [pg EXCEPT !.busy = FALSE, !.alert = error]
  ELSE [pg EXCEPT !.busy = FALSE]

\* the procedure accepts the pick: the row is inserted with the next pick number
MakePickOk(p) ==
  /\ call[p].op = "make_pick"
  /\ nextId < MaxPickIds
  /\ make_pick(page[p].authUserId, call[p].player) = Null
  /\ LET row == [ id |-> nextId + 1, league_id |-> "L1",
                  pick_number |-> Len(draft_picks) + 1,
                  user_id |-> page[p].authUserId, player_id |-> call[p].player ]
     IN /\ draft_picks' = Append(draft_picks, row)
        /\ feed' = NotifyPick(feed, row)
  /\ nextId' = nextId + 1
  /\ page' = [page EXCEPT ![p] = draftPlayerDone(@, call[p].player, Null)]
  /\ call' = [call EXCEPT ![p] = NoCall]
  /\ UNCHANGED <<league_row, draft_order, league_members, draftIdle>>

\* the procedure refuses the pick, or the request fails on the way
MakePickRejected(p) ==
  /\ call[p].op = "make_pick"
  /\ \E error \in {make_pick(page[p].authUserId, call[p].player), "request failed"} \ {Null} :
       page' = [page EXCEPT ![p] = draftPlayerDone(@, call[p].player, error)]
  /\ call' = [call EXCEPT ![p] = NoCall]
  /\ UNCHANGED <<feed, league_row, draft_order, league_members, nextId,
                 draft_picks, draftIdle>>

\* ---- resetDraft (lines 327-346) ----
resetDraft(p) ==
  /\ call[p].op = "none"
  /\ IF ~isCommissioner(p)
     THEN Alert(p, "Only the commissioner can reset the draft.") /\ UNCHANGED call
     ELSE /\ page' = [page EXCEPT ![p].busy = TRUE]
          /\ call' = [call EXCEPT ![p] = Park(p, "resetDraft", "rpc")]
  /\ UNCHANGED <<feed, league_row, draft_order, league_members, nextId,
                 draft_picks, draftRest>>

\* the button of line 442
ResetEnabled(p) == Rendered(p) /\ isCommissioner(p) /\ ~page[p].busy

ClickReset(p) == ResetEnabled(p) /\ Clicked /\ resetDraft(p)

\* the reset_draft procedure of the backing store clears the league's picks and
\* puts the league back to pre_draft; lines 344-345 do the same to the page
ResetOk(p) ==
  /\ call[p].op = "resetDraft"
  /\ draft_picks' = <<>>
  /\ league_row' = [league_row EXCEPT !.status = "pre_draft"]
  /\ feed' = NotifyLeague(feed, league_row')
  /\ page' = [page EXCEPT ![p].busy = FALSE, ![p].picks = <<>>,
                          ![p].league = IF IsNull(@) THEN @
                                        ELSE {[Val(@) EXCEPT !.status = "pre_draft"]}]
  /\ call' = [call EXCEPT ![p] = NoCall]
  /\ UNCHANGED <<draft_order, league_members, nextId, draftIdle>>

ResetErr(p) ==
  /\ call[p].op = "resetDraft"
  /\ page' = [page EXCEPT ![p].busy = FALSE, ![p].alert = "error.message"]
  /\ call' = [call EXCEPT ![p] = NoCall]
  /\ UNCHANGED <<feed, league_row, draft_order, league_members, nextId,
                 draft_picks, draftIdle>>

\* ---- the draft page specification ----
IdleDraft ==
  /\ page = [p \in Pages |-> NewPage(Null)]
  /\ call = [p \in Pages |-> NoCall]
  /\ feed = [p \in Pages |-> NoFeed]
  /\ response = [p \in Pages |-> {}]
  /\ league_row = [status |-> "pre_draft", num_teams |-> {}, commissioner_user_id |-> Null]
  /\ draft_order = {}
  /\ league_members = <<>>
  /\ nextId = 0
  /\ clicks = 0

\* a page that has received its league, members and draft order
OpenPage(user, loaded) ==
  [NewPage(user) EXCEPT !.league = {league_row}, !.members = league_members,
                        !.order = OrderBySlot(draft_order),
                        !.pending = IF loaded THEN {} ELSE @]

\* a page whose initial load failed
FailedPage == [NewPage(Null) EXCEPT !.error = TRUE, !.pending = {}]

\* members A and B have joined and the commissioner has set the order A, B; the
\* draft is either about to be started or just started, and no pick is made yet.
\* The commissioner has the draft page open with everything loaded; member B has
\* just opened it and still waits for the picks
DraftInit ==
  /\ league_members = <<"A", "B">>
  /\ \E st \in {"pre_draft", "draft"} :
       league_row = [status |-> st, num_teams |-> {2},
                     commissioner_user_id |-> Commissioner]
  /\ draft_order = OrderInserts(league_members)
  /\ nextId = 0
  /\ clicks = 0
  /\ page = [p \in Pages |-> IF p = "t1" THEN OpenPage(Commissioner, TRUE)
                                         ELSE OpenPage("B", FALSE)]
  /\ call = [p \in Pages |-> NoCall]
  /\ feed = [p \in Pages |-> NoFeed]
  /\ response = [p \in Pages |-> {}]

DraftNext ==
  \E p \in Pages :
    \/ LoadPicks(p) \/ LoadErr(p)
    \/ RealtimeLeague(p) \/ RealtimeOrder(p) \/ RealtimePick(p)
    \/ ClickSetOrder(p)
    \/ SetOrderDeleteOk(p) \/ SetOrderDeleteErr(p)
    \/ SetOrderUpdateOk(p) \/ SetOrderUpdateErr(p)
    \/ SetOrderInsertOk(p) \/ SetOrderInsertErr(p)
    \/ SetOrderSelect(p)
    \/ ClickStartDraft(p) \/ StartDraftOk(p) \/ StartDraftErr(p)
    \/ \E playerId \in DraftPlayers : ClickDraft(p, playerId)
    \/ MakePickOk(p) \/ MakePickRejected(p)
    \/ ClickReset(p) \/ ResetOk(p) \/ ResetErr(p)

\* ---- the handlers on any page state ----
\* the handler functions called on a page whatever its buttons show
InvokeStartDraft(p) == ~page[p].error /\ Clicked /\ startDraft(p)

InvokeDraftPlayer(p, playerId) == ~page[p].error /\ Clicked /\ draftPlayer(p, playerId)

InvokeSetOrder(p) == ~page[p].error /\ Clicked /\ setOrderFromJoinOrder(p)

InvokeResetDraft(p) == ~page[p].error /\ Clicked /\ resetDraft(p)

JoinOrder == <<"A", "B", "C">>

\* a pick of the league as make_pick stores it
PickRow(id, pickNumber, userId, playerId) ==
  [ id |-> id, league_id |-> "L1", pick_number |-> pickNumber,
    user_id |-> userId, player_id |-> playerId ]

\* one open page that has loaded a league in any state the rows can hold: any
\* status, num_teams unset or 0..3, an order of 0..3 slots, 0 or 1 pick made,
\* with or without a commissioner; the user is A, B or signed out
HandlerInit ==
  /\ \E status \in {"pre_draft", "draft", "post_draft"},
        num_teams \in {{}} \cup { {n} : n \in 0..3 },
        commissioner \in {Commissioner, Null} :
       league_row = [status |-> status, num_teams |-> num_teams,
                     commissioner_user_id |-> commissioner]
  /\ league_members = JoinOrder
  /\ \E k \in 0..3 : draft_order = OrderInserts(SubSeq(JoinOrder, 1, k))
  /\ \E made \in 0..1 :
       /\ draft_picks = IF made = 0 THEN <<>> ELSE <<PickRow(1, 1, "A", "p1")>>
       /\ nextId = made
  /\ clicks = 0
  /\ \E user \in Users \cup {Null} :
       page = [p \in Pages |->
                 IF p = "t1"
                 THEN [OpenPage(user, TRUE) EXCEPT !.picks = draft_picks]
                 ELSE FailedPage]
  /\ call = [p \in Pages |-> NoCall]
  /\ feed = [p \in Pages |-> NoFeed]
  /\ response = [p \in Pages |-> {}]

HandlerNext ==
  \E p \in Pages :
    \/ InvokeStartDraft(p) \/ StartDraftOk(p) \/ StartDraftErr(p)
    \/ \E playerId \in DraftPlayers : InvokeDraftPlayer(p, playerId)
    \/ MakePickOk(p) \/ MakePickRejected(p)
    \/ InvokeSetOrder(p)
    \/ SetOrderDeleteOk(p) \/ SetOrderDeleteErr(p)
    \/ SetOrderUpdateOk(p) \/ SetOrderUpdateErr(p)
    \/ SetOrderInsertOk(p) \/ SetOrderInsertErr(p)
    \/ SetOrderSelect(p)
    \/ InvokeResetDraft(p) \/ ResetOk(p) \/ ResetErr(p)

\* ---- the order set again as members join ----
\* league page, lines 386-390: one more user joins the league; a user who is
\* already a member gets the duplicate error and nothing changes
joinLeague(userId) ==
  /\ \A i \in 1..Len(league_members) : league_members[i] # userId
  /\ league_members' = Append(league_members, userId)
  /\ UNCHANGED <<page, call, feed, league_row, draft_order, nextId, draft_picks, draftIdle>>

\* the draft page is opened again and its initial loads (lines 67-120) all come back
ReloadPage(p) ==
  /\ call[p].op = "none" /\ ~page[p].error
  /\ page' = [page EXCEPT ![p] = [OpenPage(@.authUserId, TRUE) EXCEPT
                                    !.picks = SortByPickNumber(draft_picks)]]
  /\ feed' = [feed EXCEPT ![p] = NoFeed]
  /\ UNCHANGED <<call, league_row, draft_order, league_members, nextId,
                 draft_picks, draftIdle>>

\* members A and B have joined a league made for two teams; the order is not set
\* yet or is set to A, B; the commissioner has the draft page open
OrderInit ==
  /\ league_members = <<"A", "B">>
  /\ league_row = [status |-> "pre_draft", num_teams |-> {2},
                   commissioner_user_id |-> Commissioner]
  /\ draft_order \in { {}, OrderInserts(league_members) }
  /\ nextId = 0
  /\ clicks = 0
  /\ page = [p \in Pages |-> IF p = "t1" THEN OpenPage(Commissioner, TRUE) ELSE FailedPage]
  /\ call = [p \in Pages |-> NoCall]
  /\ feed = [p \in Pages |-> NoFeed]
  /\ response = [p \in Pages |-> {}]

OrderNext ==
  \/ joinLeague("C")
  \/ \E p \in Pages :
       \/ ReloadPage(p)
       \/ RealtimeLeague(p) \/ RealtimeOrder(p)
       \/ ClickSetOrder(p)
       \/ SetOrderDeleteOk(p) \/ SetOrderDeleteErr(p)
       \/ SetOrderUpdateOk(p) \/ SetOrderUpdateErr(p)
       \/ SetOrderInsertOk(p) \/ SetOrderInsertErr(p)
       \/ SetOrderSelect(p)

\* ---- a page opened while the draft is going on ----
\* the draft of members A and B is under way with no pick made yet; the
\* commissioner's page is loaded, member B's page is mounted and subscribed and
\* its picks query is on its way to the store
LoadInit ==
  /\ league_members = <<"A", "B">>
  /\ league_row = [status |-> "draft", num_teams |-> {2},
                   commissioner_user_id |-> Commissioner]
  /\ draft_order = OrderInserts(league_members)
  /\ nextId = 0
  /\ clicks = 0
  /\ page = [p \in Pages |-> IF p = "t1" THEN OpenPage(Commissioner, TRUE)
                                         ELSE OpenPage("B", FALSE)]
  /\ call = [p \in Pages |-> NoCall]
  /\ feed = [p \in Pages |-> NoFeed]
  /\ response = [p \in Pages |-> {}]

LoadNext ==
  \E p \in Pages :
    \/ QueryPicks(p) \/ DeliverPicks(p)
    \/ RealtimePick(p)
    \/ \E playerId \in DraftPlayers : ClickDraft(p, playerId)
    \/ MakePickOk(p) \/ MakePickRejected(p)

\* ---- the draft reset while members watch it ----
\* the draft of members A and B is under way with no pick made yet; both have
\* the draft page open, loaded and subscribed
ResetInit ==
  /\ league_members = <<"A", "B">>
  /\ league_row = [status |-> "draft", num_teams |-> {2},
                   commissioner_user_id |-> Commissioner]
  /\ draft_order = OrderInserts(league_members)
  /\ nextId = 0
  /\ clicks = 0
  /\ page = [p \in Pages |-> OpenPage(IF p = "t1" THEN Commissioner ELSE "B", TRUE)]
  /\ call = [p \in Pages |-> NoCall]
  /\ feed = [p \in Pages |-> NoFeed]
  /\ response = [p \in Pages |-> {}]

\* a change notification reaches the page and its handler runs
Delivery(p) == RealtimeLeague(p) \/ RealtimePick(p)

\* the request a handler waits for comes back, with a result or with an error
Completion(p) ==
  \/ MakePickOk(p) \/ MakePickRejected(p)
  \/ ResetOk(p) \/ ResetErr(p)
  \/ StartDraftOk(p) \/ StartDraftErr(p)

ResetNext ==
  \E p \in Pages :
    \/ Delivery(p) \/ Completion(p)
    \/ \E playerId \in DraftPlayers : ClickDraft(p, playerId)
    \/ ClickReset(p)
    \/ ClickStartDraft(p)

(***************************************************************************)
(* Specifications                                                          *)
(***************************************************************************)
LeagueIds == {"L1", "L2"}

IdleSnake == league = [num_teams |-> {}] /\ order = <<>> /\ turns = <<>>
IdlePoints == stat = NoStat /\ fantasy_points = {}

NoTables ==
  /\ nfl_events = {} /\ player_event_stats = {} /\ player_event_points = {}
  /\ league_team_event_points = EmptyBag

IdleRuns ==
  /\ runs = 0
  /\ pc = [r \in Runners |-> "idle"]
  /\ eventId = [r \in Runners |-> Null]
  /\ local = [r \in Runners |-> EmptyLocal]
  /\ log = [r \in Runners |-> <<>>]
  /\ atStart = [r \in Runners |->
       [ nfl_events |-> {}, player_event_stats |-> {}, player_event_points |-> {},
         league_team_event_points |-> EmptyBag ]]
  /\ prevRollup = [k \in Events \X LeagueIds |-> <<>>]
  /\ NoTables
  /\ players = PlayerRows

\* the scoring script, one run after the other
Init ==
  /\ IdleSnake /\ IdlePoints /\ IdleRuns /\ IdleDraft /\ IdleExtract /\ IdleLeaguePage
  /\ runners = {"r1"}
  /\ \/ leagues = <<>> /\ draft_picks = <<>>
     \/ /\ leagues = <<"L1", "L2">>
        /\ draft_picks \in
             { PicksMixed("L1") \o PicksTwoOwners("L2"),
               PicksNoAthleteId("L1") \o PicksMixed("L2"),
               PicksTwoOwners("L2") }

\* the scoring script started twice, the two processes running side by side
ConcInit ==
  /\ IdleSnake /\ IdlePoints /\ IdleRuns /\ IdleDraft /\ IdleExtract /\ IdleLeaguePage
  /\ runners = Runners
  /\ leagues = <<"L1">>
  /\ draft_picks \in LeaguePicks("L1")

RunNext ==
  \E r \in Runners :
    \/ \E e \in Events : StartRun(r, e)
    \/ StartWithoutEvent(r)
    \/ FetchFail(r)
    \/ \E s \in Summaries : FetchOk(r, s)
    \/ UpsertEventOk(r) \/ UpsertEventErr(r)
    \/ UpsertStatsOk(r) \/ UpsertStatsErr(r)
    \/ UpsertPointsOk(r) \/ UpsertPointsErr(r)
    \/ SelectLeaguesOk(r) \/ SelectLeaguesErr(r)
    \/ SelectPicksOk(r) \/ SelectPicksErr(r)
    \/ SelectPlayersOk(r) \/ SelectPlayersErr(r)
    \/ SelectPointsOk(r) \/ SelectPointsErr(r)
    \/ DeleteTeamOk(r) \/ DeleteTeamErr(r)
    \/ InsertTeamOk(r) \/ InsertTeamErr(r)

Spec == Init /\ [][RunNext]_vars
ConcSpec == ConcInit /\ [][RunNext]_vars

\* the turn resolver applied to pick 1, 2, ... of a league
SnakeStart == SnakeInit /\ IdleLeaguePage /\ IdlePoints /\ IdleRuns /\ IdleDraft /\ IdleExtract /\ runners = {} /\ leagues = <<>> /\ draft_picks = <<>>
SnakeSpec == SnakeStart /\ [][ResolveTurn]_vars

\* computePoints applied to a stat line
PointsStart == PointsInit /\ IdleLeaguePage /\ IdleSnake /\ IdleRuns /\ IdleDraft /\ IdleExtract /\ runners = {} /\ leagues = <<>> /\ draft_picks = <<>>
PointsSpec == PointsStart /\ [][ComputePoints]_vars

\* startDraft and draftPlayer on any page state
HandlerStart == HandlerInit /\ IdleLeaguePage /\ IdleSnake /\ IdlePoints /\ IdleRuns /\ IdleExtract /\ runners = {} /\ leagues = <<>>
HandlerSpec == HandlerStart /\ [][HandlerNext]_vars

\* toInt and extractStatsFromSummary applied to one input
ExtractStart == ExtractInit /\ IdleLeaguePage /\ IdleSnake /\ IdlePoints /\ IdleRuns /\ IdleDraft /\ runners = {} /\ leagues = <<>> /\ draft_picks = <<>>
ExtractSpec == ExtractStart /\ [][ExtractNext]_vars

\* upsertEvent applied to one game summary
EventStart ==
  /\ EventInit /\ IdleSnake /\ IdlePoints /\ IdleDraft /\ IdleLeaguePage
  /\ runs = 0 /\ pc = [r \in Runners |-> "idle"] /\ eventId = [r \in Runners |-> Null]
  /\ local = [r \in Runners |-> EmptyLocal] /\ log = [r \in Runners |-> <<>>]
  /\ atStart = [r \in Runners |->
       [ nfl_events |-> {}, player_event_stats |-> {}, player_event_points |-> {},
         league_team_event_points |-> EmptyBag ]]
  /\ prevRollup = [k \in Events \X LeagueIds |-> <<>>]
  /\ player_event_stats = {} /\ player_event_points = {}
  /\ league_team_event_points = EmptyBag
  /\ players = PlayerRows
  /\ runners = {} /\ leagues = <<>> /\ draft_picks = <<>>
EventSpec == EventStart /\ [][UpsertEvent]_vars

\* the league page, open and subscribed
LeaguePageStart == LeaguePageInit /\ IdleSnake /\ IdlePoints /\ IdleRuns /\ IdleDraft /\ IdleExtract /\ runners = {} /\ leagues = <<>> /\ draft_picks = <<>>
LeaguePageSpec == LeaguePageStart /\ [][LeaguePageNext]_vars

\* setOrderFromJoinOrder called again and again while a member joins
OrderStart == OrderInit /\ IdleLeaguePage /\ IdleSnake /\ IdlePoints /\ IdleRuns /\ IdleExtract /\ runners = {} /\ leagues = <<>> /\ draft_picks = <<>>
OrderSpec == OrderStart /\ [][OrderNext]_vars

\* the picks query of a page racing with the picks made meanwhile
LoadStart == LoadInit /\ IdleLeaguePage /\ IdleSnake /\ IdlePoints /\ IdleRuns /\ IdleExtract /\ runners = {} /\ leagues = <<>> /\ draft_picks = <<>>
LoadSpec == LoadStart /\ [][LoadNext]_vars

\* picks made, the draft reset and started again, with two members watching;
\* every notification sent is delivered and every request comes back, while no
\* user has to click anything
ResetStart == ResetInit /\ IdleLeaguePage /\ IdleSnake /\ IdlePoints /\ IdleRuns /\ IdleExtract /\ runners = {} /\ leagues = <<>> /\ draft_picks = <<>>
ResetSpec ==
  /\ ResetStart /\ [][ResetNext]_vars
  /\ \A p \in Pages : WF_vars(Delivery(p)) /\ WF_vars(Completion(p))

\* the draft page of one league, open in two pages
DraftStart == DraftInit /\ IdleLeaguePage /\ IdleSnake /\ IdlePoints /\ IdleRuns /\ IdleExtract /\ runners = {} /\ leagues = <<>> /\ draft_picks = <<>>
DraftSpec == DraftStart /\ [][DraftNext]_vars

(***************************************************************************)
(* Properties of the turn resolver (SnakeSpec)                             *)
(***************************************************************************)
\* the league has a team count N >= 1 and the order holds one owner per slot 1..N
FullOrder ==
  /\ ~IsNull(league.num_teams)
  /\ Val(league.num_teams) >= 1
  /\ Len(order) = Val(league.num_teams)

TeamCount == Val(league.num_teams)

CeilDiv(a, b) == (a + b - 1) \div b

OrderABCD ==
  << [slot |-> 1, user_id |-> "A"], [slot |-> 2, user_id |-> "B"],
     [slot |-> 3, user_id |-> "C"], [slot |-> 4, user_id |-> "D"] >>

\* C1: with team count N >= 1 and one owner per slot 1..N, pick P resolves to the
\* owner at slot idx = ((P-1) mod N)+1 when round ceil(P/N) is odd and at slot
\* N-idx+1 when it is even; for N = 4 and order A,B,C,D, picks 1..9 resolve to
\* A,B,C,D,D,C,B,A,A.
C1_SnakeOwner ==
  FullOrder =>
    /\ \A P \in 1..Len(turns) :
         LET idx == ((P - 1) % TeamCount) + 1
             slot == IF CeilDiv(P, TeamCount) % 2 = 1 THEN idx ELSE TeamCount - idx + 1
         IN turns[P].slot = slot /\ turns[P].owner = order[slot].user_id
    /\ (TeamCount = 4 /\ order = OrderABCD) =>
         \A P \in 1..Len(turns) :
           P <= 9 => turns[P].owner = <<"A", "B", "C", "D", "D", "C", "B", "A", "A">>[P]

C1_Witness ==
  /\ FullOrder /\ TeamCount = 4 /\ order = OrderABCD
  /\ Len(turns) >= 9
  /\ turns[4].owner = "D" /\ turns[5].owner = "D" /\ turns[8].owner = "A" /\ turns[9].owner = "A"

\* C2 as stated: for N >= 2, pick P and pick P+N never resolve to the same slot.
C2_Original ==
  (~IsNull(league.num_teams) /\ Val(league.num_teams) >= 2) =>
    \A P \in 1..Len(turns) :
      P + TeamCount <= Len(turns) => turns[P].slot # turns[P + TeamCount].slot

\* C2 (amended): for N >= 1, picks P and P+N resolve to mirrored slots (they add
\* up to N+1), so the two slots are equal exactly when P is the middle pick of
\* its round, 2*(((P-1) mod N)+1) = N+1, which needs N odd; for every even N the
\* two slots differ.
C2_MirroredSlots ==
  (~IsNull(league.num_teams) /\ Val(league.num_teams) >= 1) =>
    \A P \in 1..Len(turns) :
      P + TeamCount <= Len(turns) =>
        /\ turns[P].slot + turns[P + TeamCount].slot = TeamCount + 1
        /\ (turns[P].slot = turns[P + TeamCount].slot)
             <=> (2 * (((P - 1) % TeamCount) + 1) = TeamCount + 1)
        /\ (TeamCount % 2 = 0) => turns[P].slot # turns[P + TeamCount].slot

C2_Witness ==
  /\ ~IsNull(league.num_teams) /\ Val(league.num_teams) = 3
  /\ Len(turns) >= 6
  /\ turns[1].slot = 1 /\ turns[4].slot = 3
  /\ turns[2].slot = 2 /\ turns[5].slot = 2

\* C11: pickOwnerForSnake returns "no owner yet" for every pick when the team
\* count is missing, zero or negative, when the order is empty and when the order
\* has no entry for the resolved slot; an owner it does return is the owner of an
\* entry at the resolved slot, never the owner of some other slot.
C11_UnresolvedIsNull ==
  \A P \in 1..Len(turns) :
    LET hasEntry == \E i \in 1..Len(order) : order[i].slot = turns[P].slot IN
    /\ (IsNull(league.num_teams) \/ Val(league.num_teams) < 1) => turns[P].owner = Null
    /\ order = <<>> => turns[P].owner = Null
    /\ ~hasEntry => turns[P].owner = Null
    /\ turns[P].owner # Null =>
         \E i \in 1..Len(order) :
           order[i].slot = turns[P].slot /\ order[i].user_id = turns[P].owner

C11_Witness ==
  /\ ~IsNull(league.num_teams) /\ Val(league.num_teams) = 4
  /\ Len(order) = 2
  /\ Len(turns) >= 5
  /\ turns[2].slot = 2 /\ turns[2].owner = order[2].user_id
  /\ turns[3].slot = 3 /\ turns[3].owner = Null
  /\ turns[5].slot = 4 /\ turns[5].owner = Null

\* C12: with team count N >= 1 and a full draft order, the last pick of round r
\* (pick r*N) and the first pick of round r+1 (pick r*N+1) resolve to the same
\* owner, for every round r >= 1.
C12_RoundTurnaround ==
  FullOrder =>
    \A r \in 1..MaxPick :
      r * TeamCount + 1 <= Len(turns) =>
        /\ turns[r * TeamCount].owner = turns[r * TeamCount + 1].owner
        /\ turns[r * TeamCount].owner # Null

C12_Witness ==
  /\ FullOrder /\ TeamCount = 3
  /\ order[1].user_id = "A" /\ order[2].user_id = "B" /\ order[3].user_id = "C"
  /\ Len(turns) >= 7
  /\ turns[3].owner = "C" /\ turns[4].owner = "C"
  /\ turns[6].owner = "A" /\ turns[7].owner = "A"

(***************************************************************************)
(* Properties of the point formula (PointsSpec)                            *)
(***************************************************************************)
ExampleStat ==
  [NoStat EXCEPT !.passing_yards = 300, !.passing_tds = 3, !.interceptions = 1]

\* C3: for integer statistics computePoints returns the value whose hundredths are
\* 4*passing_yards + 400*passing_tds - 200*interceptions + 10*rushing_yards
\* + 600*rushing_tds + 10*receiving_yards + 600*receiving_tds + 50*receptions
\* - 200*fumbles_lost + 600*(kick_return_tds + punt_return_tds); 300 passing
\* yards, 3 passing touchdowns and 1 interception give 22.00.
C3_PointFormula ==
  ~IsNull(fantasy_points) =>
    /\ Val(fantasy_points) =
         4 * stat.passing_yards + 400 * stat.passing_tds - 200 * stat.interceptions
         + 10 * stat.rushing_yards + 600 * stat.rushing_tds
         + 10 * stat.receiving_yards + 600 * stat.receiving_tds + 50 * stat.receptions
         - 200 * stat.fumbles_lost
         + 600 * (stat.kick_return_tds + stat.punt_return_tds)
    /\ stat = ExampleStat => Val(fantasy_points) = 2200

C3_Witness == stat = ExampleStat /\ fantasy_points = {2200}

(***************************************************************************)
(* Properties of the scoring run (Spec: one run after the other;           *)
(* ConcSpec: two processes side by side)                                   *)
(***************************************************************************)
FailureSteps ==
  { "usage", "fetch_failed", "upsert_event_failed", "persist_stats_failed",
    "persist_points_failed", "select_leagues_failed", "read_picks_failed",
    "read_players_failed", "read_points_failed", "delete_team_failed",
    "insert_team_failed" }

StepsOf(r) == { log[r][i].step : i \in 1..Len(log[r]) }
Did(r, name, l) == \E i \in 1..Len(log[r]) : log[r][i] = Step(name, l)

\* the run of process r went through the whole rollup and no request failed
Completed(r) == pc[r] = "done" /\ StepsOf(r) \cap FailureSteps = {}

PicksOf(l) == SelectSeq(draft_picks, LAMBDA p : p.league_id = l)
OwnersOf(l) == { PicksOf(l)[i].user_id : i \in 1..Len(PicksOf(l)) }

\* number of rows league_team_event_points holds for (event, league, owner)
TeamRowCount(e, l, u) ==
  BagCardinality(BagRestrict(league_team_event_points,
    { row \in DOMAIN league_team_event_points :
        row.event_id = e /\ row.league_id = l /\ row.user_id = u }))

TeamRowsOf(e, l) ==
  { row \in BagToSet(league_team_event_points) : row.event_id = e /\ row.league_id = l }

\* the player's ESPN athlete id in the players table (Null when it has none)
AthleteIdOf(playerId) ==
  IF \E i \in 1..Len(players) : players[i].id = playerId
    THEN players[CHOOSE i \in 1..Len(players) : players[i].id = playerId].espn_athlete_id
    ELSE Null

\* some player drafted in the league has an ESPN athlete id
HasResolvablePlayer(l) ==
  \E i \in 1..Len(PicksOf(l)) : AthleteIdOf(PicksOf(l)[i].player_id) # Null

PlayerPointsFor(e, playerId) ==
  LET hit == { row \in player_event_points :
                 row.event_id = e /\ AthleteIdOf(playerId) # Null
                 /\ row.espn_athlete_id = AthleteIdOf(playerId) }
  IN IF hit = {} THEN 0 ELSE (CHOOSE row \in hit : TRUE).fantasy_points

\* the sum of the points for event e of the picks of league l at the positions S
RECURSIVE SumPlayerPoints(_, _, _)
SumPlayerPoints(e, l, S) ==
  IF S = {} THEN 0
  ELSE LET i == CHOOSE j \in S : TRUE
       IN PlayerPointsFor(e, PicksOf(l)[i].player_id) + SumPlayerPoints(e, l, S \ {i})

\* the sum of the points of the players owner u drafted in league l, for event e
OwnerTotal(e, l, u) ==
  SumPlayerPoints(e, l, { i \in 1..Len(PicksOf(l)) : PicksOf(l)[i].user_id = u })

\* C5: once the rollup of a run for event E has inserted the rows of league L,
\* the total of each owner's row is the sum, over the players the owner drafted in
\* L, of the player's persisted points for E only (0 for a player with no athlete
\* id or no points row for E), and no step of that league failed.
C5_TotalIsSumForEvent ==
  \A r \in runners : \A l \in SeqToSet(leagues) :
    Did(r, "insert_team", l) =>
      /\ \A row \in TeamRowsOf(eventId[r], l) :
           row.fantasy_points = OwnerTotal(eventId[r], l, row.user_id)
      /\ \A f \in FailureSteps : ~Did(r, f, l)

\* a1 scored 22.00 in e1 and 8.80 in e2: the e2 total of u1 in L2 is 8.80
C5_Witness ==
  \E r \in runners :
    /\ eventId[r] = "e2" /\ Did(r, "insert_team", "L2")
    /\ PicksOf("L2") = PicksTwoOwners("L2")
    /\ [event_id |-> "e1", espn_athlete_id |-> "a1", fantasy_points |-> 2200] \in player_event_points
    /\ [event_id |-> "e2", espn_athlete_id |-> "a1", fantasy_points |-> 880] \in player_event_points
    /\ [event_id |-> "e2", league_id |-> "L2", user_id |-> "u1", fantasy_points |-> 880]
         \in TeamRowsOf("e2", "L2")

\* C6: when the rollup of an (event, league) pair succeeds twice in a row on the
\* same picks, players and player points, the rows the pair holds after the second
\* run are the rows it held after the first: none twice, no total accumulated.
C6_RerunSameRows ==
  \A k \in DOMAIN prevRollup :
    LET h == prevRollup[k] IN
      (Len(h) = 2 /\ h[1].picks = h[2].picks /\ h[1].players = h[2].players
                  /\ h[1].points = h[2].points)
        => h[2].rows = h[1].rows

C6_Witness ==
  \E k \in DOMAIN prevRollup :
    LET h == prevRollup[k] IN
      /\ Len(h) = 2 /\ h[1].picks = h[2].picks /\ h[1].points = h[2].points
      /\ h[1].points # {}
      /\ BagCardinality(h[2].rows) = 2

\* C7: league_team_event_points never holds two rows for one (event, league,
\* owner), whatever the interleaving of the runs.
C7_AtMostOneRowPerKey ==
  \A e \in Events : \A l \in LeagueIds : \A u \in {"u1", "u2"} :
    TeamRowCount(e, l, u) <= 1

\* the rows of the three scoring tables that belong to another event than e
OtherEventRows(e) ==
  << { row \in player_event_stats : row.event_id # e },
     { row \in player_event_points : row.event_id # e },
     BagRestrict(league_team_event_points,
                 { row \in DOMAIN league_team_event_points : row.event_id # e }) >>

\* C8: a step of a scoring run for event E leaves every row of
\* league_team_event_points, player_event_points and player_event_stats that is
\* keyed by another event as it was.
C8_OtherEventsUntouched ==
  [][ \A r \in Runners : \A e \in Events :
        ((pc'[r] # pc[r] \/ log'[r] # log[r]) /\ eventId'[r] = e)
          => OtherEventRows(e)' = OtherEventRows(e) ]_vars

\* a run for e1 has deleted and inserted team rows while e2 rows were stored
C8_Witness ==
  \E r \in runners :
    /\ eventId[r] = "e1" /\ \E l \in LeagueIds : Did(r, "insert_team", l)
    /\ \E row \in BagToSet(league_team_event_points) : row.event_id = "e2"
    /\ \E row \in player_event_points : row.event_id = "e2"
    /\ \E row \in player_event_stats : row.event_id = "e2"

\* C9: a run whose provider fetch failed has ended in an error (exit code 1,
\* nothing else done) and the four tables are as they were when it started.
C9_FetchFailureWritesNothing ==
  \A r \in runners :
    Did(r, "fetch_failed", Null) =>
      /\ pc[r] = "failed"
      /\ log[r] = <<Step("fetch_failed", Null)>>
      /\ Snapshot = atStart[r]

C9_Witness ==
  \E r \in runners :
    /\ pc[r] = "failed" /\ Did(r, "fetch_failed", Null)
    /\ nfl_events # {} /\ player_event_points # {}
    /\ league_team_event_points # EmptyBag

\* the place of a step in the run; a failed request has the place of the request
Rank(name) ==
  CASE name \in {"fetch", "fetch_failed"} -> 1
    [] name \in {"upsert_event", "upsert_event_failed"} -> 2
    [] name = "extract_stats" -> 3
    [] name \in {"persist_stats", "persist_stats_failed"} -> 4
    [] name = "compute_points" -> 5
    [] name \in {"persist_points", "persist_points_failed"} -> 6
    [] name \in {"select_leagues", "select_leagues_failed"} -> 7
    [] name \in {"read_picks", "skip_no_picks", "read_picks_failed"} -> 8
    [] name \in {"read_players", "skip_no_players", "skip_no_athlete_ids",
                 "read_players_failed"} -> 9
    [] name \in {"read_points", "read_points_failed"} -> 10
    [] name = "nothing_to_update" -> 11
    [] name \in {"delete_team", "delete_team_failed"} -> 12
    [] name \in {"insert_team", "insert_team_failed"} -> 13
    [] OTHER -> 0

\* the steps that read or write a league's team totals or their inputs
IsTeamStep(name) == Rank(name) >= 7

MainOrder ==
  << "fetch", "upsert_event", "extract_stats", "persist_stats", "compute_points",
     "persist_points" >>

\* C10: the steps of one run happen in the order fetch, extract stats, compute
\* points, persist points, per-league rollup, persist team totals: every step of
\* the team rollup comes after the six steps that end with the points persisted,
\* each league's reads precede its delete and its delete precedes its insert, and
\* a failure while persisting stats or points ends the run with no team-total row
\* read, deleted or inserted.
C10_StepOrder ==
  \A r \in runners :
    LET lg == log[r] IN
    /\ \A i \in 1..(Len(lg) - 1) :
         \/ Rank(lg[i].step) < Rank(lg[i + 1].step)
         \/ /\ Rank(lg[i].step) >= 8 /\ Rank(lg[i + 1].step) = 8
            /\ lg[i].league # lg[i + 1].league
    /\ \A j \in 1..Len(lg) :
         /\ IsTeamStep(lg[j].step) =>
              j > 6 /\ \A i \in 1..6 : lg[i].step = MainOrder[i]
         /\ lg[j].step \in {"delete_team", "delete_team_failed"} =>
              lg[j - 1] = Step("read_points", lg[j].league)
         /\ lg[j].step \in {"insert_team", "insert_team_failed"} =>
              lg[j - 1] = Step("delete_team", lg[j].league)
         /\ lg[j].step \in {"persist_stats_failed", "persist_points_failed"} =>
              /\ j = Len(lg) /\ pc[r] = "failed"
              /\ league_team_event_points = atStart[r].league_team_event_points

C10_Witness ==
  \E r \in runners :
    /\ pc[r] = "done"
    /\ Did(r, "persist_points", Null)
    /\ Did(r, "insert_team", "L1") /\ Did(r, "insert_team", "L2")


(***************************************************************************)
(* Properties of the draft page handlers (HandlerSpec: the handlers on any *)
(* page state; DraftSpec: a live draft open in two pages)                  *)
(***************************************************************************)
\* the team count startDraft works with: num_teams, or the order length when unset
TeamCountSeen(lg, ord) ==
  IF lg = {} THEN Len(ord)
  ELSE IF (CHOOSE l \in lg : TRUE).num_teams = {} THEN Len(ord)
  ELSE CHOOSE n \in (CHOOSE l \in lg : TRUE).num_teams : TRUE

\* C13: the league status becomes draft only when the league's team count n
\* (num_teams, or the number of order rows when num_teams is unset) is at least 2
\* and the league's draft order has exactly n rows, so that no league is in draft
\* status with an order of fewer or more than n entries.
C13_StartDraftGuard ==
  [][ (league_row.status # "draft" /\ league_row'.status = "draft") =>
        /\ TeamCountSeen({league_row'}, OrderBySlot(draft_order')) >= 2
        /\ Cardinality(draft_order') =
             TeamCountSeen({league_row'}, OrderBySlot(draft_order'))
    ]_vars

\* C14: while the league's persisted status is draft, no step of the draft page
\* deletes, inserts or changes its draft_order rows or its num_teams.
C14_OrderImmutableInDraft ==
  [][ league_row.status = "draft" =>
        /\ draft_order' = draft_order
        /\ league_row'.num_teams = league_row.num_teams ]_vars

\* C15: draftPlayer sends a make_pick request only when the status the page knows
\* is draft, a user is signed in and pickOwnerForSnake(local picks + 1) resolves
\* to that user; in every other case no request is sent.
C15_PickRequestGuard ==
  [][ \A p \in Pages :
        /\ (call[p].op # "make_pick" /\ call'[p].op = "make_pick") =>
             /\ page[p].league # {}
             /\ (CHOOSE l \in page[p].league : TRUE).status = "draft"
             /\ page[p].authUserId # Null
             /\ pickOwnerForSnakeIn(page[p].league, page[p].order, Len(page[p].picks) + 1)
                  = page[p].authUserId
             /\ call'[p].player \in DraftPlayers
        /\ Len(draft_picks') > Len(draft_picks) =>
             \E q \in Pages : call[q].op = "make_pick" /\ call'[q].op = "none"
    ]_vars

C15_Witness ==
  /\ call["t1"].op = "make_pick" /\ call["t1"].player = "p2"
  /\ page["t1"].authUserId = "B"
  /\ Len(page["t1"].picks) = 1
  /\ league_row.num_teams = {2} /\ Cardinality(draft_order) = 2

RejectionMessages == {"draft not active", "not your turn", "player already drafted",
                      "request failed"}

PickIds(picks) == { picks[i].id : i \in 1..Len(picks) }

\* C16: when make_pick is rejected draftPlayer shows the rejection message and
\* leaves the local picks and the local league as they were; it adds no pick to
\* the local list when the request succeeds either: a pick enters the local list
\* only with the initial load or with an INSERT notification.
C16_NoOptimisticPick ==
  [][ \A p \in Pages :
        /\ (call[p].op = "make_pick" /\ call'[p].op = "none") =>
             /\ page'[p].picks = page[p].picks
             /\ page'[p].league = page[p].league
             /\ draft_picks' = draft_picks =>
                  page'[p].alert \in RejectionMessages
        /\ (PickIds(page'[p].picks) \ PickIds(page[p].picks) # {}) =>
             \/ /\ "draft_picks" \in page[p].pending
                /\ "draft_picks" \notin page'[p].pending
                /\ page'[p].picks = SortByPickNumber(draft_picks)
             \/ \E x \in feed[p].draft_picks :
                  /\ feed'[p].draft_picks = feed[p].draft_picks \ {x}
                  /\ PickIds(page'[p].picks) = PickIds(page[p].picks) \cup {x.id}
    ]_vars

C16_Witness ==
  /\ page["t1"].alert = "not your turn"
  /\ page["t1"].picks = <<>>
  /\ Len(draft_picks) = 1
  /\ call["t1"].op = "none" /\ ~page["t1"].busy

UniqueAndSorted(picks) ==
  /\ \A i, j \in 1..Len(picks) : i # j => picks[i].id # picks[j].id
  /\ \A i \in 1..(Len(picks) - 1) : picks[i].pick_number <= picks[i + 1].pick_number

\* C17: whatever the order in which draft_picks INSERT notifications arrive, and
\* whether or not the pick is already known, the local picks list never holds two
\* records with the same id, a notification whose id is present leaves the list
\* as it is, and the list stays in ascending pick_number order.
C17_MergeIdempotent ==
  [][ \A p \in Pages :
        /\ UniqueAndSorted(page[p].picks) /\ UniqueAndSorted(page'[p].picks)
        /\ \A x \in feed[p].draft_picks :
             ( /\ feed'[p].draft_picks = feed[p].draft_picks \ {x}
               /\ x.id \in PickIds(page[p].picks) ) =>
                 page'[p].picks = page[p].picks
        /\ \A x \in feed[p].draft_picks :
             ( /\ feed'[p].draft_picks = feed[p].draft_picks \ {x}
               /\ x.id \notin PickIds(page[p].picks)
               /\ ~page'[p].error ) =>
                 /\ Len(page'[p].picks) = Len(page[p].picks) + 1
                 /\ \E i \in 1..Len(page'[p].picks) : page'[p].picks[i] = x
    ]_vars

\* pick 2 arrived before pick 1, which is still on its way
C17_Witness ==
  /\ Len(page["t1"].picks) = 1 /\ page["t1"].picks[1].pick_number = 2
  /\ \E x \in feed["t1"].draft_picks : x.pick_number = 1
  /\ Len(draft_picks) = 2

(***************************************************************************)
(* Properties of the stat and point tables (Spec)                          *)
(***************************************************************************)
\* the table holds at most one row per (event, athlete)
OneRowPerAthlete(table) ==
  \A a, b \in table : AthleteKey(a) = AthleteKey(b) => a = b

\* the points row stored for (event, athlete) is computePoints of the stat line
\* stored for (event, athlete)
PointsMatchStats(stats, points, evId, athleteId) ==
  /\ \E st \in stats : AthleteKey(st) = <<evId, athleteId>>
  /\ \E pt \in points : AthleteKey(pt) = <<evId, athleteId>>
  /\ \A st \in stats : \A pt \in points :
       (AthleteKey(st) = <<evId, athleteId>> /\ AthleteKey(pt) = <<evId, athleteId>>) =>
         \E err \in FloatErr : pt.fantasy_points = computePoints(st, err)

\* C18: after any sequence of scoring runs player_event_stats and
\* player_event_points each hold at most one row per (event, athlete); when a run
\* for event E has persisted its points, the points row of every athlete of its box
\* score is computePoints of the athlete's persisted stat line for E, and the rest
\* of the run, up to its completion, changes neither table.
C18_OneRowPerAthleteAndPointsMatch ==
  [][ /\ OneRowPerAthlete(player_event_stats) /\ OneRowPerAthlete(player_event_stats')
      /\ OneRowPerAthlete(player_event_points) /\ OneRowPerAthlete(player_event_points')
      /\ \A r \in runners :
           /\ (pc[r] = "upsertPoints" /\ pc'[r] = "selectLeagues") =>
                \A i \in 1..Len(local[r].stats) :
                  PointsMatchStats(player_event_stats', player_event_points',
                                   eventId[r], local[r].stats[i].espn_athlete_id)
           /\ pc[r] \notin {"upsertStats", "upsertPoints"} =>
                /\ player_event_stats' = player_event_stats
                /\ player_event_points' = player_event_points
    ]_vars

\* a second run for e1 has completed and has overwritten the stat line and the
\* points row that the run before it stored for athlete a1
C18_Witness ==
  \E r \in runners :
    /\ Completed(r) /\ eventId[r] = "e1" /\ Did(r, "persist_points", Null)
    /\ \E old \in atStart[r].player_event_stats : \E new \in player_event_stats :
         /\ AthleteKey(old) = <<"e1", "a1">> /\ AthleteKey(new) = <<"e1", "a1">>
         /\ old # new
    /\ \E old \in atStart[r].player_event_points : \E new \in player_event_points :
         /\ AthleteKey(old) = <<"e1", "a1">> /\ AthleteKey(new) = <<"e1", "a1">>
         /\ old # new

(***************************************************************************)
(* Properties of the stat extraction (ExtractSpec)                         *)
(***************************************************************************)
StatFields ==
  {"passing_yards", "passing_tds", "interceptions", "rushing_yards", "rushing_tds",
   "receiving_yards", "receiving_tds", "receptions", "fumbles_lost",
   "kick_return_tds", "punt_return_tds"}

\* the recognized (category, label) pairs of each field, in lower case
StatVocabulary ==
  [ passing_yards |-> {<<"passing", "yds">>},
    passing_tds |-> {<<"passing", "td">>},
    interceptions |-> {<<"passing", "int">>},
    rushing_yards |-> {<<"rushing", "yds">>},
    rushing_tds |-> {<<"rushing", "td">>},
    receiving_yards |-> {<<"receiving", "yds">>},
    receiving_tds |-> {<<"receiving", "td">>},
    receptions |-> {<<"receiving", "rec">>},
    fumbles_lost |-> {"fumble", "fumbles", "fumbleslost"} \X {"lost", "fumbles lost"},
    kick_return_tds |-> {<<"kickreturns", "td">>},
    punt_return_tds |-> {<<"puntreturns", "td">>} ]

\* the team blocks of a summary
BlocksOf(doc) == IF IsNull(doc.players) THEN <<>> ELSE Val(doc.players)

\* the athlete rows <<block, category, row>> of the team blocks
RowsOf(blocks) ==
  UNION { UNION { { <<b, g, r>> : r \in 1..Len(blocks[b].statistics[g].athletes) } :
                  g \in 1..Len(blocks[b].statistics) } :
          b \in 1..Len(blocks) }

\* the columns <<block, category, row, column>> of the team blocks
ColumnsOf(blocks) ==
  UNION { { <<c[1], c[2], c[3], i>> :
              i \in 1..Len(blocks[c[1]].statistics[c[2]].labels) } :
          c \in RowsOf(blocks) }

GroupAt(blocks, c) == blocks[c[1]].statistics[c[2]]
RowAt(blocks, c) == blocks[c[1]].statistics[c[2]].athletes[c[3]]

\* the value of a column: {} when the row has no value at the column's index
CellAt(blocks, c) ==
  IF c[4] <= Len(RowAt(blocks, c).stats) THEN {RowAt(blocks, c).stats[c[4]]} ELSE {}

\* the column is of the athlete and its (category, label) is recognized for the field
Contributes(blocks, c, athleteId, field) ==
  /\ RowAt(blocks, c).athlete_id = athleteId
  /\ <<toLowerCase(GroupAt(blocks, c).name), toLowerCase(GroupAt(blocks, c).labels[c[4]])>>
       \in StatVocabulary[field]

\* the sum of the parsed values of a set of columns
RECURSIVE SumValues(_, _)
SumValues(blocks, cols) ==
  IF cols = {} THEN 0
  ELSE LET c == CHOOSE d \in cols : TRUE
       IN toInt(CellAt(blocks, c)) + SumValues(blocks, cols \ {c})

AthleteIdsOf(blocks) == { RowAt(blocks, c).athlete_id : c \in RowsOf(blocks) } \ {Null}

\* C19: extractStatsFromSummary returns exactly one stat line for each distinct
\* athlete id of the team blocks, and each field of the line is the sum of the
\* parsed values of the athlete's columns, over all team blocks and categories,
\* whose (category, label) pair is recognized for the field; a column of another
\* category or label adds to no field.
C19_OneLinePerAthleteSummed ==
  (summary # <<>> /\ extracted # {}) =>
    LET blocks == BlocksOf(summary[1])
        lines == Val(extracted)
    IN /\ { lines[k].espn_athlete_id : k \in 1..Len(lines) } = AthleteIdsOf(blocks)
       /\ Len(lines) = Cardinality(AthleteIdsOf(blocks))
       /\ \A k \in 1..Len(lines) : \A f \in StatFields :
            lines[k][f] =
              SumValues(blocks, { c \in ColumnsOf(blocks) :
                                   Contributes(blocks, c, lines[k].espn_athlete_id, f) })

\* athlete a1 has passing yards in two team blocks, next to an unrecognized
\* column, and has one stat line with the sum
C19_Witness ==
  /\ summary # <<>> /\ extracted # {}
  /\ Len(BlocksOf(summary[1])) = 2
  /\ Len(Val(extracted)) = 1
  /\ Val(extracted)[1].espn_athlete_id = "a1"
  /\ Val(extracted)[1].passing_yards = 14

\* after the stripping of toInt the text does not start with a digit, or with a
\* sign and a digit
NoParsableNumber(x) ==
  \/ IsNull(x)
  \/ LET t == StripNonDigits(Val(x))
     IN ~ \/ Len(t) >= 1 /\ t[1] \in Digits
          \/ Len(t) >= 2 /\ t[1] = "-" /\ t[2] \in Digits

\* the second column of the first athlete row of a summary
HasFirstRow(doc) ==
  /\ Len(BlocksOf(doc)) >= 1
  /\ Len(BlocksOf(doc)[1].statistics) >= 1
  /\ Len(BlocksOf(doc)[1].statistics[1].athletes) >= 1
  /\ Len(BlocksOf(doc)[1].statistics[1].athletes[1].stats) >= 1
SecondCell(doc) == CellAt(BlocksOf(doc), <<1, 1, 1, 2>>)

\* the summary with the text "0" in that column
WithSecondCellZero(doc) ==
  [doc EXCEPT !.players =
     {[Val(@) EXCEPT ![1].statistics[1].athletes[1].stats =
         IF Len(@) >= 2 THEN [@ EXCEPT ![2] = <<"0">>] ELSE Append(@, <<"0">>)]}]

\* C20: toInt returns an integer for every value, and 0 for null, undefined and
\* every text without a parsable number after the stripping; a value of that
\* kind in one column of one row leaves extractStatsFromSummary with the result
\* it has when the column holds 0.
C20_ToIntDefaultsToZero ==
  /\ toIntRet # {} =>
       /\ Val(toIntRet) \in Int
       /\ NoParsableNumber(toIntArg[1]) => Val(toIntRet) = 0
  /\ (summary # <<>> /\ extracted # {}) =>
       ((HasFirstRow(summary[1]) /\ NoParsableNumber(SecondCell(summary[1]))) =>
          Val(extracted) = extractStatsFromSummary(WithSecondCellZero(summary[1])))

\* toInt has returned 0 for a text that holds a digit behind two signs
C20_Witness ==
  /\ toIntArg = << {<<"-", "-", "1">>} >>
  /\ toIntRet = {0}

(***************************************************************************)
(* Properties of the team rollup's skips and failures (Spec)               *)
(***************************************************************************)
\* the rows of league l in a league_team_event_points bag
LeagueRows(B, l) == BagRestrict(B, { row \in DOMAIN B : row.league_id = l })

\* the step that process r takes appends an entry with one of the names to its log
Logs(r, names) ==
  /\ Len(log'[r]) = Len(log[r]) + 1
  /\ SubSeq(log'[r], 1, Len(log[r])) = log[r]
  /\ log'[r][Len(log'[r])].step \in names

\* after the step the loop is at the league that follows the current one, or the
\* run has returned when the current league is the last
GoesOn(r) ==
  IF local[r].li < Len(local[r].leagues)
    THEN /\ pc'[r] = "selectPicks"
         /\ local'[r].leagues = local[r].leagues
         /\ local'[r].li = local[r].li + 1
    ELSE pc'[r] = "done"

\* the leagues the run of process r has skipped with one of the step names
LeaguesWith(r, names) ==
  { log[r][i].league : i \in { j \in 1..Len(log[r]) : log[r][j].step \in names } }

\* C21: a league with zero draft picks is skipped by the team rollup: none of its
\* league_team_event_points rows is deleted or inserted by the run, no error ends
\* the run, and the rollup goes on with the next league of the list.
C21_NoPicksSkipped ==
  [][ \A r \in runners :
        /\ Logs(r, {"skip_no_picks"}) =>
             /\ league_team_event_points' = league_team_event_points
             /\ pc[r] = "selectPicks" /\ log'[r][Len(log'[r])].league = LeagueOf(r)
             /\ PicksOf(LeagueOf(r)) = <<>>
             /\ GoesOn(r)
        /\ (pc[r] = "selectPicks" /\ pc'[r] # pc[r] /\ PicksOf(LeagueOf(r)) = <<>>) =>
             (Logs(r, {"skip_no_picks", "read_picks_failed"}) /\ GoesOn(r))
        /\ \A l \in LeaguesWith(r, {"skip_no_picks"})' :
             LeagueRows(league_team_event_points', l)
               = LeagueRows(atStart'[r].league_team_event_points, l)
    ]_vars

\* a run has skipped L1, which has no picks, and has then written the rows of L2
C21_Witness ==
  \E r \in runners :
    /\ pc[r] = "done"
    /\ Did(r, "skip_no_picks", "L1") /\ Did(r, "insert_team", "L2")
    /\ LeagueRows(league_team_event_points, "L2") # EmptyBag

\* C26: when the insert of the recomputed rows of an (event, league) pair fails
\* after the delete has succeeded, the rows stored for the pair before the run are
\* still stored afterwards.
C26_RowsSurviveFailedInsert ==
  \A r \in runners : \A l \in LeagueIds :
    Did(r, "insert_team_failed", l) =>
      BagRestrict(atStart[r].league_team_event_points,
                  { row \in DOMAIN atStart[r].league_team_event_points :
                      DeleteScope(row, l, eventId[r]) })
        \sqsubseteq league_team_event_points

ReadFailures == {"read_picks_failed", "read_players_failed", "read_points_failed"}

\* C29: an error while reading a league's picks, players or points leaves the
\* league's stored team-total rows as they were and does not stop the rollup: the
\* loop goes on with the next league of the list.
C29_ReadErrorSkipsLeague ==
  [][ \A r \in runners :
        /\ Logs(r, ReadFailures) =>
             /\ league_team_event_points' = league_team_event_points
             /\ pc[r] \in {"selectPicks", "selectPlayers", "selectPoints"}
             /\ log'[r][Len(log'[r])].league = LeagueOf(r)
             /\ GoesOn(r)
        /\ \A l \in LeaguesWith(r, ReadFailures)' :
             LeagueRows(league_team_event_points', l)
               = LeagueRows(atStart'[r].league_team_event_points, l)
    ]_vars

\* the points query of L1 failed in a second run for e1: the rows of L1 are the
\* ones of the first run, and L2 was processed after it
C29_Witness ==
  \E r \in runners :
    /\ pc[r] = "done" /\ runs = 2
    /\ Did(r, "read_points_failed", "L1") /\ Did(r, "insert_team", "L2")
    /\ LeagueRows(league_team_event_points, "L1") # EmptyBag

(***************************************************************************)
(* Properties of upsertEvent (EventSpec)                                   *)
(***************************************************************************)
\* the score a competitor's text stands for: none when the competitor or its score
\* is missing, empty or no number
ScoreOf(competitor) ==
  IF IsNull(competitor.score) THEN {}
  ELSE CASE Val(competitor.score) = <<"0">> -> {0}
         [] Val(competitor.score) = <<"7">> -> {7}
         [] Val(competitor.score) = <<"2", "4">> -> {24}
         [] Val(competitor.score) = <<"2", "7">> -> {27}
         [] OTHER -> {}

\* the row stored for the game
StoredEvent(events) == CHOOSE row \in events : row.id = "e1"

\* C23: upsertEvent stores a non-null winner_id only when the game status is
\* STATUS_FINAL and both scores are present and unequal, and then it is the id of
\* the team with the higher score; for a tied final score and for a game that is
\* not final the stored winner_id is null.
C23_WinnerOnlyWhenFinalAndDecided ==
  [][ (summary # <<>> /\ summary' = <<>>) =>
        LET doc == summary[1]
            home == ScoreOf(doc.home)
            away == ScoreOf(doc.away)
            decided == /\ doc.status = "STATUS_FINAL"
                       /\ home # {} /\ away # {} /\ home # away
            row == StoredEvent(nfl_events')
        IN /\ Cardinality({ e \in nfl_events' : e.id = "e1" }) = 1
           /\ row.winner_id # Null => decided
           /\ decided =>
                row.winner_id = IF Val(home) > Val(away) THEN doc.home.id ELSE doc.away.id
           /\ ~decided => row.winner_id = Null
    ]_vars

\* a final game tied 7-7 is stored without a winner
C23_Witness ==
  /\ summary = <<>>
  /\ \E row \in nfl_events :
       /\ row.status = "STATUS_FINAL" /\ row.home_score = {7} /\ row.away_score = {7}
       /\ row.winner_id = Null

(***************************************************************************)
(* Properties of the league page (LeaguePageSpec)                          *)
(***************************************************************************)
\* C28: when a player_event_points notification arrives, fetchPlayerPoints is
\* called for every team that is expanded at that moment, whatever was expanded
\* or collapsed since the subscription was created.
C28_ExpandedTeamsRefetched ==
  [][ leaguePage'.pointEvents = leaguePage.pointEvents + 1 =>
        leaguePage'.refetched = leaguePage.expandedTeams ]_vars

\* C30: a burst of league_team_event_points notifications, each arriving before
\* the timeout set by the one before it has fired, leaves one timeout pending,
\* the one set by the last notification, and causes one refreshStandings call
\* when it fires; after the cleanup of the effect no timeout is pending and no
\* timeout calls refreshStandings.
C30_OneRefreshPerBurst ==
  [][ /\ Cardinality(leaguePage.timers) <= 1 /\ Cardinality(leaguePage'.timers) <= 1
      /\ (leaguePage.subscribed /\ leaguePage.burst >= 1) =>
           leaguePage.timers = leaguePage.standingsTimer
      /\ (leaguePage'.subscribed /\ leaguePage'.burst >= 1) =>
           leaguePage'.timers = leaguePage'.standingsTimer
      /\ ~leaguePage'.subscribed => leaguePage'.timers = {}
      /\ leaguePage'.refreshes # leaguePage.refreshes =>
           /\ leaguePage'.refreshes = leaguePage.refreshes + 1
           /\ leaguePage.subscribed
           /\ leaguePage.burst >= 1 /\ leaguePage'.burst = 0
           /\ leaguePage.timers = leaguePage.standingsTimer
           /\ leaguePage'.timers = {}
    ]_vars

\* three notifications came in one burst and one refresh followed; the page was
\* then torn down
C30_Witness ==
  /\ leaguePage.events = 3 /\ leaguePage.pointEvents = 0
  /\ leaguePage.refreshes = 1 /\ leaguePage.burst = 0
  /\ ~leaguePage.subscribed

(***************************************************************************)
(* Properties of the commissioner's handlers (HandlerSpec)                 *)
(***************************************************************************)
\* a user is signed in on the page and is the commissioner of the league
SignedInCommissioner(p) ==
  /\ page[p].authUserId \in Users
  /\ league_row.commissioner_user_id = page[p].authUserId

CommissionerOps == {"setOrder", "startDraft", "resetDraft"}

\* C27: setOrderFromJoinOrder, startDraft and resetDraft, called by a user who is
\* not the league's commissioner (nobody signed in and an unset commissioner id
\* included), send no request to the backing store and change no state of the
\* page; the league row, the draft order and the clearing of the picks are the
\* work of a request of the commissioner only.
C27_CommissionerOnly ==
  [][ /\ \A p \in Pages :
           /\ (call[p].op = "none" /\ call'[p].op \in CommissionerOps) =>
                SignedInCommissioner(p)
           /\ (call[p].op = "none" /\ clicks' = clicks + 1 /\ ~SignedInCommissioner(p)
                  /\ call'[p].op # "make_pick") =>
                /\ call'[p] = call[p]
                /\ page'[p] = [page[p] EXCEPT !.alert = page'[p].alert]
                /\ feed' = feed /\ league_row' = league_row
                /\ draft_order' = draft_order /\ draft_picks' = draft_picks
      /\ (\/ league_row' # league_row \/ draft_order' # draft_order
          \/ Len(draft_picks') < Len(draft_picks)) =>
           \E q \in Pages :
             /\ call[q].op \in CommissionerOps
             /\ SignedInCommissioner(q)
    ]_vars

\* nobody is signed in, the league has no commissioner id, and resetDraft has
\* only shown its message: the pick made is still stored
C27_Witness ==
  /\ page["t1"].authUserId = Null /\ league_row.commissioner_user_id = Null
  /\ page["t1"].alert = "Only the commissioner can reset the draft."
  /\ call["t1"].op = "none" /\ ~page["t1"].busy
  /\ Len(draft_picks) = 1 /\ Len(page["t1"].picks) = 1


(***************************************************************************)
(* Properties of the stored draft order (OrderSpec)                        *)
(***************************************************************************)
\* C22: whenever no setOrderFromJoinOrder call is under way and the league's
\* stored draft order is not empty, its slots are exactly 1..N with N the
\* league's num_teams, no slot is held twice and no owner holds two slots
C22_OrderMatchesNumTeams ==
  ((\A p \in Pages : call[p].op = "none") /\ draft_order # {}) =>
    /\ ~IsNull(league_row.num_teams)
    /\ { r.slot : r \in draft_order } = 1..Val(league_row.num_teams)
    /\ \A r, q \in draft_order : (r.slot = q.slot \/ r.user_id = q.user_id) => r = q


(***************************************************************************)
(* Properties of the picks load (LoadSpec)                                 *)
(***************************************************************************)
\* nothing is on its way to page p: its picks query is answered and delivered
\* and every draft_picks notification sent to it has arrived
Settled(p) ==
  /\ ~page[p].error
  /\ "draft_picks" \notin page[p].pending /\ response[p] = {}
  /\ feed[p].draft_picks = {}

\* C24: once the answer to the picks query and every INSERT notification have
\* been delivered to a page, its local picks list holds every pick stored for
\* the league and the next pick number it shows is the number of stored picks
\* plus 1
C24_AllPicksOnceDelivered ==
  \A p \in Pages :
    Settled(p) =>
      /\ PickIds(draft_picks) \subseteq PickIds(page[p].picks)
      /\ nextPickNumber(p) = Len(draft_picks) + 1


(***************************************************************************)
(* Properties of the reset (ResetSpec)                                     *)
(***************************************************************************)
\* picks were made and the reset_draft procedure has cleared them
ResetSucceeded == nextId > 0 /\ draft_picks = <<>>

\* C25: after a reset has succeeded, every page subscribed to the league comes
\* to hold an empty local picks list
C25_PicksClearedAfterReset ==
  ResetSucceeded ~> (\A p \in Pages : Listening(p) => page[p].picks = <<>>)

====
